---- MODULE Spec2Model ----
(***************************************************************************)
(* Model of core_dual_shock: the Input State Table (input_state.py), the   *)
(* DualShockReader with its ingestion thread (main.py) and the TKG frame   *)
(* encoder (tkg_transmitter.py).                                           *)
(***************************************************************************)
EXTENDS Integers, Sequences, FiniteSets, TLC

VARIABLES
    \* TKGTransmitter fields
    _timestamp, _is_estop, _wheel_speed, _hand_forward,
    \* the frame returned by the last build_frame call (<<>> before the first),
    \* and the value _is_estop had when that call was made
    frame, estop_at_build,
    \* the snapshot passed to the last build_frame call
    snap,
    \* the timestamp field of the frame returned by the build_frame call before
    \* the last one (NoFrame when there was none)
    prev_ts,
    \* TRUE once set_estop(False) has been called on this encoder
    estop_cleared,
    \* the wheel-speed level stored when the last build_frame call began
    wheel_before,
    \* "none" before the encoder object is constructed, "created" afterwards
    mode,
    \* InputState fields: the two dicts, and the owner of _lock ("free" when unlocked)
    _buttons, _analog, _lock,
    \* TRUE once InputState.__init__ has returned
    constructed,
    \* the thread that calls update_button / update_analog / reset: its position
    \* ("idle", "acquire", "body"), the call it is in, and reset's loop index
    w_pc, w_op, w_i,
    \* the thread that calls snapshot: its position ("idle", "acquire",
    \* "copy_buttons", "copy_analog", "returned"), the buttons copy it holds, and
    \* the InputSnapshot returned by its last call
    r_pc, r_buttons, result,
    \* the dicts of that InputSnapshot ("buttons", "analog") that are the table's
    \* own dict objects rather than objects of their own
    result_views,
    \* the table contents left by the last completed update / reset call and the
    \* name of that call; their values when the last snapshot call copied _buttons
    committed, last_op, at_copy, op_at_copy,
    \* whether some channel was off neutral when the last reset began, and the
    \* value of that flag when the last snapshot call copied _buttons
    dirty_at_reset, dirty_at_copy,
    \* DualShockReader._running
    _running,
    \* the device: still physically present, and its handle still open
    dev_alive, dev_open,
    \* the ingestion thread (_event_loop): "none" before __iter__ starts it, then
    \* "loop", "read", "apply", "hat2", and "exited"; and the event it holds
    t_pc, t_ev,
    \* the thread that drives the reader: "new", "idle" (between __next__ calls),
    \* "check", "snap" (inside __next__), "ended" (StopIteration raised),
    \* "stop_reset", "stop_close" (inside stop), "stopped"
    c_pc,
    \* whether the liveness check of the running __next__ call failed
    tick_lost,
    \* the snapshot returned by the last __next__ call, and whether the liveness
    \* check of that call failed
    yielded, yield_lost,
    \* TRUE once stop() has been called on the reader, and whether the running
    \* (or last) __next__ call was made after that
    stop_called, tick_after_stop,
    \* the ingestion thread started by the __iter__ call before the last one:
    \* "none" when there is none, "loop" (at "while self._running"), "body"
    \* (inside an iteration of the loop), "exited"
    t_old,
    \* a session of _run_json_mode / _run_tkg_mode: its kind ("none" when no
    \* session runs, "json", "tkg_serial", "tkg_dry"), the position of its main
    \* thread ("off", "create_tx", "iter", "next", "controls", "emit", "print",
    \* "exited") and how it left ("none", "interrupt", "error")
    s_kind, s_pc, exit_cause,
    \* whether reader.stop() ran in the session
    stop_ran,
    \* the locals prev_wheel_up / prev_wheel_down of _run_tkg_mode
    prev_wheel_up, prev_wheel_down,
    \* now - last_send_time in quanta of one snapshot period, capped at SEND_INTERVAL
    elapsed,
    \* what the running snapshot tick of the bridging loop has done so far: the
    \* number of ticks begun (capped at 2), dpad_up / dpad_down as the tick
    \* before yielded them, the calls of wheel_speed_up / wheel_speed_down and
    \* the frames built in this tick
    tick_log,
    \* the snapshot periods since the last emitted frame (capped at
    \* SEND_INTERVAL, -1 before the first frame), and their number when the
    \* last frame was emitted
    emit_log,
    \* a pure function applied to drawn inputs: the name of the function ("none"
    \* before it is applied), its inputs and its result
    p_fn, p_arg, p_out

tblVars == <<_buttons, _analog, _lock, constructed, w_pc, w_op, w_i, r_pc, r_buttons, result, result_views, committed, at_copy, op_at_copy, dirty_at_copy, last_op, dirty_at_reset>>

rdrVars == <<_running, dev_alive, dev_open, t_pc, t_ev, c_pc, tick_lost, yielded, yield_lost, stop_called, tick_after_stop, t_old>>

encVars == <<_timestamp, _is_estop, _wheel_speed, _hand_forward, frame, estop_at_build, snap, prev_ts, estop_cleared, wheel_before, mode>>

sesVars == <<s_kind, s_pc, exit_cause, stop_ran, prev_wheel_up, prev_wheel_down, elapsed, tick_log, emit_log>>

pureVars == <<p_fn, p_arg, p_out>>

vars == <<encVars, tblVars, rdrVars, sesVars, pureVars>>

-----------------------------------------------------------------------------
(* Bit operations on non-negative integers, as Python's &, |, ^, << on ints *)

RECURSIVE BitAnd(_, _)
BitAnd(a, b) == IF a = 0 \/ b = 0 THEN 0 ELSE ((a % 2) * (b % 2)) + 2 * BitAnd(a \div 2, b \div 2)

RECURSIVE BitOr(_, _)
BitOr(a, b) == IF a = 0 THEN b ELSE IF b = 0 THEN a ELSE (IF (a % 2) + (b % 2) > 0 THEN 1 ELSE 0) + 2 * BitOr(a \div 2, b \div 2)

RECURSIVE BitXor(_, _)
BitXor(a, b) == IF a = 0 THEN b ELSE IF b = 0 THEN a ELSE (((a % 2) + (b % 2)) % 2) + 2 * BitXor(a \div 2, b \div 2)

Shl(a, n) == a * (2 ^ n)

Shr(a, n) == a \div (2 ^ n)

\* Python's int(): truncation toward zero of the quotient n / d, d > 0
TruncDiv(n, d) == IF n >= 0 THEN n \div d ELSE -((-n) \div d)

\* dict.get(key, default)
Get(d, k, default) == IF k \in DOMAIN d THEN d[k] ELSE default

\* Python truthiness of an int
Truthy(v) == v # 0

-----------------------------------------------------------------------------
(* input_state.py: the canonical channel set and neutral values *)

BUTTONS == <<"triangle", "circle", "cross", "square", "L1", "R1", "L3", "R3", "dpad_up", "dpad_down", "dpad_left", "dpad_right", "select", "start", "ps", "touchpad">>

ANALOG_CHANNELS == <<"left_x", "left_y", "right_x", "right_y", "L2", "R2">>

ButtonNames == {BUTTONS[i] : i \in 1..Len(BUTTONS)}

AnalogNames == {ANALOG_CHANNELS[i] : i \in 1..Len(ANALOG_CHANNELS)}

STICKS == {"left_x", "left_y", "right_x", "right_y"}

BUTTON_NEUTRAL == 0
STICK_NEUTRAL == 128
TRIGGER_NEUTRAL == 0

-----------------------------------------------------------------------------
(* tkg_transmitter.py: pure helpers *)

CRC_POLY == 235

\* one shift round of calc_crc8's inner loop, tabulated over the byte values
ShiftRound == [crc \in 0..255 |-> IF BitAnd(crc, 128) = 128 THEN BitXor(CRC_POLY, BitAnd(Shl(crc, 1), 255)) ELSE BitAnd(Shl(crc, 1), 255)]

\* the inner loop of calc_crc8: n shift rounds on crc
RECURSIVE CrcShift(_, _)
CrcShift(crc, n) == IF n = 0 THEN crc ELSE CrcShift(ShiftRound[crc], n - 1)

\* the inner loop with its 7 rounds (range(7)), tabulated over the byte values
CRC_ROUNDS == 7

ByteRound == [crc \in 0..255 |-> CrcShift(crc, CRC_ROUNDS)]

RECURSIVE CrcBytesAllSeven(_, _, _)
CrcBytesAllSeven(data, i, crc) == IF i = 7 THEN crc ELSE CrcBytesAllSeven(data, i + 1, ByteRound[BitXor(crc, data[i + 1])])

\* the outer loop of calc_crc8 over data[i..5] (0-based index i; sequences are 1-based)
RECURSIVE CrcBytes(_, _, _)
CrcBytes(data, i, crc) == IF i = 6 THEN crc ELSE CrcBytes(data, i + 1, ByteRound[BitXor(crc, data[i + 1])])

calc_crc8(data) == CrcBytes(data, 0, 0)

\* A duty ratio is a float n/128; it is modelled by its numerator n (every duty
\* the program computes is (value - 128) / 128.0, exact in binary floating point).
DUTY_DEN == 128

StickToDutyFrom127(value) == value - 127

\* (value - 128) / 128.0
_stick_to_duty(value) == value - 128

DutyToByteFullRange(duty) == LET t == TruncDiv(duty * 128, DUTY_DEN) val == IF t > 127 THEN 127 ELSE IF t < -128 THEN -128 ELSE t IN val % 256

DutyToByteFloor(duty) == LET t == (duty * 127) \div DUTY_DEN val == IF t > 127 THEN 127 ELSE IF t < -127 THEN -127 ELSE t IN val % 256

\* max(-127, min(127, int(duty * 127))) & 0xFF
_duty_to_signed_byte(duty) == LET t == TruncDiv(duty * 127, DUTY_DEN) val == IF t > 127 THEN 127 ELSE IF t < -127 THEN -127 ELSE t IN val % 256

HeaderEstopInverted(is_estop, datatype, timestamp) == BitOr(BitOr(Shl(IF is_estop THEN 1 ELSE 0, 7), Shl(BitAnd(datatype, 3), 5)), Shl(BitAnd(timestamp, 7), 2))

_build_header(is_estop, datatype, timestamp) == BitOr(BitOr(Shl(IF is_estop THEN 0 ELSE 1, 7), Shl(BitAnd(datatype, 3), 5)), Shl(BitAnd(timestamp, 7), 2))

FiringHandUnshifted(wheel_speed, fire, taimatu_lift, hand_forward, fire_angle) == BitOr(BitOr(BitOr(BitOr(Shl(BitAnd(wheel_speed, 3), 6), Shl(BitAnd(fire, 3), 4)), Shl(BitAnd(taimatu_lift, 3), 2)), BitAnd(hand_forward, 1)), BitAnd(fire_angle, 1))

_build_firing(wheel_speed, fire, taimatu_lift, hand_forward, fire_angle) == BitOr(BitOr(BitOr(BitOr(Shl(BitAnd(wheel_speed, 3), 6), Shl(BitAnd(fire, 3), 4)), Shl(BitAnd(taimatu_lift, 3), 2)), Shl(BitAnd(hand_forward, 1), 1)), BitAnd(fire_angle, 1))

_build_opt2(body_speed_mode, mg_action) == BitOr(Shl(BitAnd(body_speed_mode, 1), 7), Shl(BitAnd(mg_action, 3), 5))

\* _format_wire: a text is the sequence of its characters.  The digits of the
\* format type "x"
HEX_DIGITS == <<"0", "1", "2", "3", "4", "5", "6", "7", "8", "9", "a", "b", "c", "d", "e", "f">>

RECURSIVE FormatHex(_)
FormatHex(b) == IF b < 16 THEN <<HEX_DIGITS[b + 1]>> ELSE FormatHex(b \div 16) \o <<HEX_DIGITS[(b % 16) + 1]>>

FormatHexUnpadded(b) == FormatHex(b)

\* f"{b:02x}": the hexadecimal digits of b, filled with "0" on the left to width 2
FormatHex02(b) == IF Len(FormatHex(b)) < 2 THEN <<"0">> \o FormatHex(b) ELSE FormatHex(b)

\* sep.join(fields)
RECURSIVE Join(_, _)
Join(sep, fields) == IF Len(fields) = 0 THEN <<>>
                     ELSE IF Len(fields) = 1 THEN fields[1]
                     ELSE fields[1] \o sep \o Join(sep, Tail(fields))

_format_wire(f) == Join(<<",">>, [k \in 1..Len(f) |-> FormatHex02(f[k])]) \o <<"\r", "\n">>

DATATYPE_CMD1 == 1

-----------------------------------------------------------------------------
(* Input snapshots handed to the encoder *)

AllReleased == [b \in ButtonNames |-> BUTTON_NEUTRAL]

\* every button the encoder or the bridging loop reads held alone, each pair of
\* buttons that compete for one field held together, and one button nobody reads
HeldSets == {{}} \cup {{b} : b \in {"triangle", "circle", "cross", "square", "L1", "R1", "dpad_up", "dpad_down", "dpad_left", "dpad_right", "ps"}} \cup {{"circle", "cross"}, {"dpad_up", "dpad_down"}, {"square", "R1"}, {"dpad_left", "dpad_right"}}

ButtonMaps == {[b \in ButtonNames |-> IF b \in h THEN 1 ELSE 0] : h \in HeldSets}

NeutralAnalog == [c \in AnalogNames |-> IF c \in STICKS THEN STICK_NEUTRAL ELSE TRIGGER_NEUTRAL]

\* analog maps: neutral, two deflections of the three velocity sticks, the
\* values next to the centre, and a snapshot without analog entries
AnalogMaps == {NeutralAnalog, [NeutralAnalog EXCEPT !["left_x"] = 0, !["left_y"] = 255, !["right_x"] = 64], [NeutralAnalog EXCEPT !["left_x"] = 255, !["left_y"] = 0, !["right_x"] = 192], [NeutralAnalog EXCEPT !["left_x"] = 127, !["left_y"] = 129, !["right_x"] = 127], <<>>}

\* snapshots: any button map with neutral sticks, any analog map with no button
\* held, and a deflection with square held
Snapshots == {[buttons |-> p[1], analog |-> p[2]] : p \in (ButtonMaps \X {NeutralAnalog}) \cup ({AllReleased, [AllReleased EXCEPT !["square"] = 1]} \X AnalogMaps)}

-----------------------------------------------------------------------------
(* input_state.py: InputState, with its operations split at the points where *)
(* another thread can run                                                    *)

\* d[k] = v on a dict
PutKeepsFirst(d, k, v) == [x \in DOMAIN d \cup {k} |-> IF x = k /\ x \notin DOMAIN d THEN v ELSE d[x]]

Put(d, k, v) == [x \in DOMAIN d \cup {k} |-> IF x = k THEN v ELSE d[x]]

NoSnapshot == [buttons |-> <<>>, analog |-> <<>>]

NoOp == [name |-> "none", ch |-> "", val |-> 0]

\* the channels and values the updating thread writes
UpdButtons == {"triangle", "touchpad"}

UpdButtonValues == {0, 1}

UpdAnalog == {"left_x", "R2"}

UpdAnalogValues == {0, 255}

\* the value reset() assigns to an analog channel
ResetSticksToZero(channel) == TRIGGER_NEUTRAL

AnalogNeutral(channel) == IF channel \in {"left_x", "left_y", "right_x", "right_y"} THEN STICK_NEUTRAL ELSE TRIGGER_NEUTRAL

Table == [buttons |-> _buttons, analog |-> _analog]

IsNeutral(snapshot) == /\ DOMAIN snapshot.buttons = ButtonNames
                       /\ DOMAIN snapshot.analog = AnalogNames
                       /\ \A b \in ButtonNames : snapshot.buttons[b] = 0
                       /\ \A c \in {"left_x", "left_y", "right_x", "right_y"} : snapshot.analog[c] = 128
                       /\ \A c \in {"L2", "R2"} : snapshot.analog[c] = 0

\* InputState.__init__ has created the lock and the two empty dicts and is about
\* to call reset()
TableNew == /\ _buttons = <<>>
            /\ _analog = <<>>
            /\ _lock = "free"
            /\ constructed = FALSE
            /\ w_pc = "acquire"
            /\ w_op = [NoOp EXCEPT !.name = "reset"]
            /\ w_i = 1
            /\ r_pc = "idle"
            /\ r_buttons = <<>>
            /\ result = NoSnapshot
            /\ result_views = {}
            /\ committed = NoSnapshot
            /\ last_op = "none"
            /\ at_copy = NoSnapshot
            /\ op_at_copy = "none"
            /\ dirty_at_copy = FALSE
            /\ dirty_at_reset = FALSE

\* a constructed table that no thread is using
TableIdle == /\ _buttons = AllReleased
             /\ _analog = NeutralAnalog
             /\ _lock = "free"
             /\ constructed = TRUE
             /\ w_pc = "idle"
             /\ w_op = NoOp
             /\ w_i = 1
             /\ r_pc = "idle"
             /\ r_buttons = <<>>
             /\ result = NoSnapshot
            /\ result_views = {}
             /\ committed = [buttons |-> AllReleased, analog |-> NeutralAnalog]
             /\ last_op = "reset"
             /\ at_copy = NoSnapshot
             /\ op_at_copy = "none"
             /\ dirty_at_copy = FALSE
             /\ dirty_at_reset = FALSE

readerVars == <<r_pc, r_buttons, result, result_views, at_copy, op_at_copy, dirty_at_copy>>

\* the updating thread calls update_button(name, value)
CallUpdateButton == /\ constructed /\ w_pc = "idle"
                    /\ \E name \in UpdButtons, value \in UpdButtonValues : w_op' = [name |-> "update_button", ch |-> name, val |-> value]
                    /\ w_pc' = "acquire"
                    /\ UNCHANGED <<_buttons, _analog, _lock, constructed, w_i, committed, last_op, dirty_at_reset, readerVars>>

\* the updating thread calls update_analog(name, value)
CallUpdateAnalog == /\ constructed /\ w_pc = "idle"
                    /\ \E name \in UpdAnalog, value \in UpdAnalogValues : w_op' = [name |-> "update_analog", ch |-> name, val |-> value]
                    /\ w_pc' = "acquire"
                    /\ UNCHANGED <<_buttons, _analog, _lock, constructed, w_i, committed, last_op, dirty_at_reset, readerVars>>

\* the updating thread calls reset()
CallReset == /\ constructed /\ w_pc = "idle"
             /\ w_op' = [NoOp EXCEPT !.name = "reset"]
             /\ w_pc' = "acquire"
             /\ UNCHANGED <<_buttons, _analog, _lock, constructed, w_i, committed, last_op, dirty_at_reset, readerVars>>

AcquireWithoutWaiting == TRUE

\* "with self._lock": entry blocks while another thread holds the lock
CanAcquire == _lock = "free"

WAcquire == /\ w_pc = "acquire"
            /\ CanAcquire
            /\ _lock' = "writer"
            /\ w_pc' = "body"
            /\ w_i' = 1
            /\ UNCHANGED <<_buttons, _analog, constructed, w_op, committed, last_op, dirty_at_reset, readerVars>>

\* the body of update_button, and the release of the lock
UpdateButtonBody == /\ w_pc = "body" /\ w_op.name = "update_button"
                    /\ _buttons' = Put(_buttons, w_op.ch, w_op.val)
                    /\ _lock' = "free"
                    /\ w_pc' = "idle"
                    /\ committed' = [buttons |-> _buttons', analog |-> _analog]
                    /\ last_op' = "update_button"
                    /\ UNCHANGED <<_analog, constructed, w_op, w_i, dirty_at_reset, readerVars>>

\* the body of update_analog, and the release of the lock
UpdateAnalogBody == /\ w_pc = "body" /\ w_op.name = "update_analog"
                    /\ _analog' = Put(_analog, w_op.ch, w_op.val)
                    /\ _lock' = "free"
                    /\ w_pc' = "idle"
                    /\ committed' = [buttons |-> _buttons, analog |-> _analog']
                    /\ last_op' = "update_analog"
                    /\ UNCHANGED <<_buttons, constructed, w_op, w_i, dirty_at_reset, readerVars>>

\* one iteration of reset's first loop: self._buttons[button] = BUTTON_NEUTRAL
ResetButtonStep == /\ w_pc = "body" /\ w_op.name = "reset" /\ w_i <= Len(BUTTONS)
                   /\ _buttons' = Put(_buttons, BUTTONS[w_i], BUTTON_NEUTRAL)
                   /\ w_i' = w_i + 1
                   /\ dirty_at_reset' = (IF w_i = 1 THEN constructed /\ ~IsNeutral(Table) ELSE dirty_at_reset)
                   /\ UNCHANGED <<_analog, _lock, constructed, w_pc, w_op, committed, last_op, readerVars>>

\* one iteration of reset's second loop; the last one ends the call and releases
\* the lock (and ends __init__ when this is the constructor's reset)
ResetAnalogStep == /\ w_pc = "body" /\ w_op.name = "reset" /\ w_i > Len(BUTTONS)
                   /\ _analog' = Put(_analog, ANALOG_CHANNELS[w_i - Len(BUTTONS)], AnalogNeutral(ANALOG_CHANNELS[w_i - Len(BUTTONS)]))
                   /\ IF w_i < Len(BUTTONS) + Len(ANALOG_CHANNELS)
                      THEN /\ w_i' = w_i + 1
                           /\ UNCHANGED <<_lock, constructed, w_pc, committed, last_op>>
                      ELSE /\ w_i' = 1
                           /\ _lock' = "free"
                           /\ w_pc' = "idle"
                           /\ constructed' = TRUE
                           /\ committed' = [buttons |-> _buttons, analog |-> _analog']
                           /\ last_op' = "reset"
                   /\ UNCHANGED <<_buttons, w_op, dirty_at_reset, readerVars>>

writerVars == <<w_pc, w_op, w_i, constructed, committed, last_op, dirty_at_reset>>

\* the reading thread calls snapshot()
CallSnapshot == /\ constructed /\ r_pc \in {"idle", "returned"}
                /\ r_pc' = "acquire"
                /\ UNCHANGED <<_buttons, _analog, _lock, r_buttons, result, result_views, at_copy, op_at_copy, dirty_at_copy, writerVars>>

RAcquire == /\ r_pc = "acquire"
            /\ CanAcquire
            /\ _lock' = "reader"
            /\ r_pc' = "copy_buttons"
            /\ UNCHANGED <<_buttons, _analog, r_buttons, result, result_views, at_copy, op_at_copy, dirty_at_copy, writerVars>>

CopyReturnsSameDict(name) == {name}

\* dict.copy(): the dicts, among the one copied, that the returned dict is the
\* same object as (a copy is a new object)
DictCopy(name) == {}

\* self._buttons.copy()
CopyButtons == /\ r_pc = "copy_buttons"
               /\ r_buttons' = _buttons
               /\ result_views' = DictCopy("buttons")
               /\ at_copy' = committed
               /\ op_at_copy' = last_op
               /\ dirty_at_copy' = dirty_at_reset
               /\ r_pc' = "copy_analog"
               /\ UNCHANGED <<_buttons, _analog, _lock, result, writerVars>>

\* self._analog.copy(), the construction of the InputSnapshot, and the release of
\* the lock
CopyAnalog == /\ r_pc = "copy_analog"
              /\ result' = [buttons |-> r_buttons, analog |-> _analog]
              /\ result_views' = result_views \cup DictCopy("analog")
              /\ _lock' = "free"
              /\ r_pc' = "returned"
              /\ UNCHANGED <<_buttons, _analog, r_buttons, at_copy, op_at_copy, dirty_at_copy, writerVars>>

-----------------------------------------------------------------------------
(* mapper.py: the built-in profiles and Mapper *)

\* evdev event types and codes named by the profiles and the ingestion loop
EV_SYN == 0
EV_KEY == 1
EV_ABS == 3
ABS_X == 0
ABS_Y == 1
ABS_Z == 2
ABS_RX == 3
ABS_RY == 4
ABS_RZ == 5
ABS_HAT0X == 16
ABS_HAT0Y == 17
BTN_SOUTH == 304
BTN_EAST == 305
BTN_NORTH == 307
BTN_WEST == 308
BTN_TL == 310
BTN_TR == 311
BTN_SELECT == 314
BTN_START == 315
BTN_MODE == 316
BTN_THUMBL == 317
BTN_THUMBR == 318

\* PROFILES["DualShock4"] (PROFILES["DualSense"] has the same entries)
ProfileSticks == [left_x |-> [code |-> ABS_X, min |-> 0, max |-> 255], left_y |-> [code |-> ABS_Y, min |-> 0, max |-> 255], right_x |-> [code |-> ABS_RX, min |-> 0, max |-> 255], right_y |-> [code |-> ABS_RY, min |-> 0, max |-> 255]]

ProfileTriggers == [L2 |-> [code |-> ABS_Z, min |-> 0, max |-> 255], R2 |-> [code |-> ABS_RZ, min |-> 0, max |-> 255]]

ProfileButtons == [triangle |-> BTN_NORTH, circle |-> BTN_EAST, cross |-> BTN_SOUTH, square |-> BTN_WEST, L1 |-> BTN_TL, R1 |-> BTN_TR, L3 |-> BTN_THUMBL, R3 |-> BTN_THUMBR, select |-> BTN_SELECT, start |-> BTN_START, ps |-> BTN_MODE, touchpad |-> BTN_THUMBR + 1]

ProfileDpad == [hat_x |-> ABS_HAT0X, hat_y |-> ABS_HAT0Y]

\* the deadzone the reader is created with
DEADZONE == 10

\* Mapper.get_event_mapping: later assignments to the same code overwrite earlier ones
MappedCodes == {ProfileButtons[b] : b \in DOMAIN ProfileButtons} \cup {ProfileSticks[c].code : c \in DOMAIN ProfileSticks} \cup {ProfileTriggers[c].code : c \in DOMAIN ProfileTriggers} \cup {ProfileDpad.hat_x, ProfileDpad.hat_y}

get_event_mapping == [code \in MappedCodes |-> IF code = ProfileDpad.hat_y THEN <<"dpad_hat_y", "hat">> ELSE IF code = ProfileDpad.hat_x THEN <<"dpad_hat_x", "hat">> ELSE IF \E c \in DOMAIN ProfileTriggers : ProfileTriggers[c].code = code THEN <<CHOOSE c \in DOMAIN ProfileTriggers : ProfileTriggers[c].code = code, "analog">> ELSE IF \E c \in DOMAIN ProfileSticks : ProfileSticks[c].code = code THEN <<CHOOSE c \in DOMAIN ProfileSticks : ProfileSticks[c].code = code, "analog">> ELSE <<CHOOSE b \in DOMAIN ProfileButtons : ProfileButtons[b] = code, "button">>]

NormalizeUnclamped(raw, dev_min, dev_max) == IF dev_max = dev_min THEN 128 ELSE TruncDiv((raw - dev_min) * 255, dev_max - dev_min)

\* Mapper._normalize_value
_normalize_value(raw, dev_min, dev_max) == LET normalized == IF dev_max = dev_min THEN 128 ELSE TruncDiv((raw - dev_min) * 255, dev_max - dev_min) IN IF normalized > 255 THEN 255 ELSE IF normalized < 0 THEN 0 ELSE normalized

DeadzoneInclusive(value) == LET d == value - 128 IN IF (IF d < 0 THEN -d ELSE d) <= DEADZONE THEN 128 ELSE value

\* Mapper._apply_deadzone
_apply_deadzone(value) == LET d == value - 128 IN IF (IF d < 0 THEN -d ELSE d) < DEADZONE THEN 128 ELSE value

\* Mapper.normalize
NormalizeSticksOnly(snapshot) == [buttons |-> snapshot.buttons, analog |-> [c \in DOMAIN ProfileSticks \cap DOMAIN snapshot.analog |-> _apply_deadzone(_normalize_value(snapshot.analog[c], ProfileSticks[c].min, ProfileSticks[c].max))]]

normalize(snapshot) == [buttons |-> snapshot.buttons, analog |-> [c \in (DOMAIN ProfileSticks \cup DOMAIN ProfileTriggers) \cap DOMAIN snapshot.analog |-> IF c \in DOMAIN ProfileSticks THEN _apply_deadzone(_normalize_value(snapshot.analog[c], ProfileSticks[c].min, ProfileSticks[c].max)) ELSE _normalize_value(snapshot.analog[c], ProfileTriggers[c].min, ProfileTriggers[c].max)]]

-----------------------------------------------------------------------------
(* main.py: DualShockReader and its ingestion thread.  The table operations *)
(* are taken as single steps here; each runs under InputState._lock.        *)

\* InputState.reset as one step
ResetButtons(d) == [x \in DOMAIN d \cup ButtonNames |-> IF x \in ButtonNames THEN BUTTON_NEUTRAL ELSE d[x]]

ResetAnalog(d) == [x \in DOMAIN d \cup AnalogNames |-> IF x \in AnalogNames THEN AnalogNeutral(x) ELSE d[x]]

NoEvent == [type |-> -1, code |-> -1, value |-> 0]

\* a code no profile names
UNMAPPED_CODE == 999

\* the events the device can deliver
Events == {[type |-> EV_KEY, code |-> BTN_SOUTH, value |-> 1], [type |-> EV_KEY, code |-> BTN_SOUTH, value |-> 0], [type |-> EV_ABS, code |-> ABS_X, value |-> 200], [type |-> EV_ABS, code |-> ABS_HAT0X, value |-> -1], [type |-> EV_ABS, code |-> ABS_HAT0X, value |-> 1], [type |-> EV_ABS, code |-> ABS_HAT0X, value |-> 0], [type |-> EV_SYN, code |-> 0, value |-> 0], [type |-> EV_KEY, code |-> UNMAPPED_CODE, value |-> 1]}

\* DualShockReader.__init__ has returned: a detected device, a fresh table, no thread
ReaderNew == /\ _running = FALSE
             /\ dev_alive = TRUE
             /\ dev_open = TRUE
             /\ t_pc = "none"
             /\ t_ev = NoEvent
             /\ c_pc = "new"
             /\ tick_lost = FALSE
             /\ yielded = NoSnapshot
             /\ yield_lost = FALSE
             /\ stop_called = FALSE
             /\ tick_after_stop = FALSE
             /\ t_old = "none"

tableData == <<_buttons, _analog>>

\* the device is unplugged
Disconnect == /\ dev_alive
              /\ dev_alive' = FALSE
              /\ UNCHANGED <<tableData, _running, dev_open, t_pc, t_ev, c_pc, tick_lost, yielded, yield_lost, stop_called, tick_after_stop>>

\* DualShockReader.__iter__
Iter == /\ c_pc = "new"
        /\ _running' = TRUE
        /\ t_pc' = "loop"
        /\ c_pc' = "idle"
        /\ UNCHANGED <<tableData, dev_alive, dev_open, t_ev, tick_lost, yielded, yield_lost, stop_called, tick_after_stop>>

\* _event_loop: "while self._running"
LoopCheck == /\ t_pc = "loop"
             /\ t_pc' = (IF _running THEN "read" ELSE "exited")
             /\ UNCHANGED <<tableData, _running, dev_alive, dev_open, t_ev, c_pc, tick_lost, yielded, yield_lost, stop_called, tick_after_stop>>

\* _event_loop: read_event yields nothing (no event, or an OSError from a lost or
\* closed device)
ReadNothing == /\ t_pc = "read"
               /\ t_pc' = "loop"
               /\ UNCHANGED <<tableData, _running, dev_alive, dev_open, t_ev, c_pc, tick_lost, yielded, yield_lost, stop_called, tick_after_stop>>

\* _event_loop: read_event returns an event that the type check or the code
\* check drops ("continue")
ReadDropped == /\ t_pc = "read"
               /\ dev_alive /\ dev_open
               /\ \E e \in Events : /\ ~(e.type \in {EV_KEY, EV_ABS} /\ e.code \in DOMAIN get_event_mapping)
                                    /\ t_ev' = e
               /\ t_pc' = "loop"
               /\ UNCHANGED <<tableData, _running, dev_alive, dev_open, c_pc, tick_lost, yielded, yield_lost, stop_called, tick_after_stop>>

\* _event_loop: read_event returns an event that passes both checks
ReadEvent == /\ t_pc = "read"
             /\ dev_alive /\ dev_open
             /\ \E e \in Events : /\ e.type \in {EV_KEY, EV_ABS}
                                  /\ e.code \in DOMAIN get_event_mapping
                                  /\ t_ev' = e
             /\ t_pc' = "apply"
             /\ UNCHANGED <<tableData, _running, dev_alive, dev_open, c_pc, tick_lost, yielded, yield_lost, stop_called, tick_after_stop>>

\* the first and the second update_button call of _handle_hat_event
HatFirst(hat_channel, value) == IF hat_channel = "dpad_hat_x" THEN <<"dpad_left", IF value = -1 THEN 1 ELSE 0>> ELSE <<"dpad_up", IF value = -1 THEN 1 ELSE 0>>

HatSecondOnOtherAxis(hat_channel, value) == IF hat_channel = "dpad_hat_x" THEN <<"dpad_down", IF value = 1 THEN 1 ELSE 0>> ELSE <<"dpad_right", IF value = 1 THEN 1 ELSE 0>>

HatSecond(hat_channel, value) == IF hat_channel = "dpad_hat_x" THEN <<"dpad_right", IF value = 1 THEN 1 ELSE 0>> ELSE <<"dpad_down", IF value = 1 THEN 1 ELSE 0>>

\* _event_loop: the update the held event is routed to (for a hat event, the
\* first of its two updates)
Apply == /\ t_pc = "apply"
         /\ LET route == get_event_mapping[t_ev.code]
            IN \/ /\ route[2] = "button"
                  /\ _buttons' = Put(_buttons, route[1], t_ev.value)
                  /\ t_pc' = "loop"
                  /\ UNCHANGED _analog
               \/ /\ route[2] = "analog"
                  /\ _analog' = Put(_analog, route[1], t_ev.value)
                  /\ t_pc' = "loop"
                  /\ UNCHANGED _buttons
               \/ /\ route[2] = "hat"
                  /\ _buttons' = Put(_buttons, HatFirst(route[1], t_ev.value)[1], HatFirst(route[1], t_ev.value)[2])
                  /\ t_pc' = "hat2"
                  /\ UNCHANGED _analog
         /\ UNCHANGED <<_running, dev_alive, dev_open, t_ev, c_pc, tick_lost, yielded, yield_lost, stop_called, tick_after_stop>>

\* _handle_hat_event: the second update
Hat2 == /\ t_pc = "hat2"
        /\ LET route == get_event_mapping[t_ev.code]
           IN _buttons' = Put(_buttons, HatSecond(route[1], t_ev.value)[1], HatSecond(route[1], t_ev.value)[2])
        /\ t_pc' = "loop"
        /\ UNCHANGED <<_analog, _running, dev_alive, dev_open, t_ev, c_pc, tick_lost, yielded, yield_lost, stop_called, tick_after_stop>>

\* DualShockDevice.is_connected
is_connected == dev_alive

RaisesOnDeviceLoss == ~_running \/ ~dev_alive

\* __next__: "if not self._running: raise StopIteration"
NextRaises == ~_running

\* __next__: the _running test (StopIteration when it fails); the call then sleeps
NextCall == /\ c_pc \in {"idle", "stopped", "ended"}
            /\ c_pc' = (IF NextRaises THEN "ended" ELSE "check")
            /\ tick_lost' = FALSE
            /\ tick_after_stop' = stop_called
            /\ UNCHANGED <<tableData, _running, dev_alive, dev_open, t_pc, t_ev, yielded, yield_lost, stop_called>>

\* __next__: the liveness check, and reset() when it fails
NextCheck == /\ c_pc = "check"
             /\ IF is_connected
                THEN UNCHANGED <<tableData, tick_lost>>
                ELSE /\ _buttons' = ResetButtons(_buttons)
                     /\ _analog' = ResetAnalog(_analog)
                     /\ tick_lost' = TRUE
             /\ c_pc' = "snap"
             /\ UNCHANGED <<_running, dev_alive, dev_open, t_pc, t_ev, yielded, yield_lost, stop_called, tick_after_stop>>

\* __next__: snapshot(), normalize and return
NextSnapshot == /\ c_pc = "snap"
                /\ yielded' = normalize(Table)
                /\ yield_lost' = tick_lost
                /\ c_pc' = "idle"
                /\ UNCHANGED <<tableData, _running, dev_alive, dev_open, t_pc, t_ev, tick_lost, stop_called, tick_after_stop>>

\* stop(): self._running = False (the caller may have been interrupted inside __next__)
StopCall == /\ c_pc \in {"idle", "check", "snap"}
            /\ _running' = FALSE
            /\ stop_called' = TRUE
            /\ c_pc' = "stop_reset"
            /\ UNCHANGED <<tableData, dev_alive, dev_open, t_pc, t_ev, tick_lost, yielded, yield_lost, tick_after_stop>>

\* stop(): self._input_state.reset()
StopReset == /\ c_pc = "stop_reset"
             /\ _buttons' = ResetButtons(_buttons)
             /\ _analog' = ResetAnalog(_analog)
             /\ c_pc' = "stop_close"
             /\ UNCHANGED <<_running, dev_alive, dev_open, t_pc, t_ev, tick_lost, yielded, yield_lost, stop_called, tick_after_stop>>

\* stop(): self._device.close()
StopClose == /\ c_pc = "stop_close"
             /\ dev_open' = FALSE
             /\ c_pc' = "stopped"
             /\ UNCHANGED <<tableData, _running, dev_alive, t_pc, t_ev, tick_lost, yielded, yield_lost, stop_called, tick_after_stop>>

-----------------------------------------------------------------------------
(* tkg_transmitter.py: TKGTransmitter *)

NoFrame == -1

\* before the encoder object exists
NoEncoder == /\ mode = "none"
             /\ _timestamp = 0
             /\ _is_estop = FALSE
             /\ _wheel_speed = 0
             /\ _hand_forward = 0
             /\ frame = <<>>
             /\ snap = [buttons |-> AllReleased, analog |-> NeutralAnalog]
             /\ prev_ts = NoFrame
             /\ estop_at_build = FALSE
             /\ estop_cleared = FALSE
             /\ wheel_before = 0

\* the initial value of _is_estop set by TKGTransmitter.__init__
INIT_ESTOP == TRUE

DryRunStartsCleared == FALSE

\* the initial value of _is_estop set by the dry-run construction in _run_tkg_mode
DRY_RUN_INIT_ESTOP == TRUE

\* TKGTransmitter.__init__ (the serial mode of _run_tkg_mode)
TKGTransmitter_init == /\ mode = "none"
                       /\ mode' = "created"
                       /\ _timestamp' = 0
                       /\ _is_estop' = INIT_ESTOP
                       /\ _wheel_speed' = 0
                       /\ _hand_forward' = 0
                       /\ UNCHANGED <<frame, snap, prev_ts, estop_at_build, estop_cleared, wheel_before>>

\* the field-by-field construction of the dry-run mode of _run_tkg_mode
DryRunCreate == /\ mode = "none"
                /\ mode' = "created"
                /\ _timestamp' = 0
                /\ _is_estop' = DRY_RUN_INIT_ESTOP
                /\ _wheel_speed' = 0
                /\ _hand_forward' = 0
                /\ UNCHANGED <<frame, snap, prev_ts, estop_at_build, estop_cleared, wheel_before>>

\* main._print_decoded_frame: the fields read back from a frame (frame[k] is
\* the sequence element k + 1)
DecEstopBit(f) == BitAnd(Shr(f[1], 7), 1)

DecDatatype(f) == BitAnd(Shr(f[1], 5), 3)

DecTimestamp(f) == BitAnd(Shr(f[1], 2), 7)

DecWheel(f) == BitAnd(Shr(f[5], 6), 3)

DecFire(f) == BitAnd(Shr(f[5], 4), 3)

DecTaimatu(f) == BitAnd(Shr(f[5], 2), 3)

DecHand(f) == BitAnd(Shr(f[5], 1), 1)

DecAngle(f) == BitAnd(f[5], 1)

DecSpdMode(f) == BitAnd(Shr(f[6], 7), 1)

DecMg(f) == BitAnd(Shr(f[6], 5), 3)

\* values computed by build_frame from the snapshot and the encoder state
FireCrossFirst(buttons) == IF Truthy(Get(buttons, "cross", 0)) THEN 1 ELSE IF Truthy(Get(buttons, "circle", 0)) THEN 2 ELSE 0

FireOf(buttons) == IF Truthy(Get(buttons, "circle", 0)) THEN 2 ELSE IF Truthy(Get(buttons, "cross", 0)) THEN 1 ELSE 0

LiftDownFirst(buttons) == IF Truthy(Get(buttons, "dpad_down", 0)) THEN 2 ELSE IF Truthy(Get(buttons, "dpad_up", 0)) THEN 1 ELSE 0

LiftOf(buttons) == IF Truthy(Get(buttons, "dpad_up", 0)) THEN 1 ELSE IF Truthy(Get(buttons, "dpad_down", 0)) THEN 2 ELSE 0

HandNotLatched(buttons, hand) == IF Truthy(Get(buttons, "square", 0)) THEN 1 ELSE 0

HandClearsUnheld(buttons, hand) == IF Truthy(Get(buttons, "square", 0)) THEN 1 ELSE 0

HandOf(buttons, hand) == IF Truthy(Get(buttons, "square", 0)) THEN 1 ELSE IF Truthy(Get(buttons, "R1", 0)) THEN 0 ELSE hand

MgLeftFirst(buttons) == IF Truthy(Get(buttons, "dpad_left", 0)) THEN 2 ELSE IF Truthy(Get(buttons, "dpad_right", 0)) THEN 1 ELSE 0

MgOf(buttons) == IF Truthy(Get(buttons, "dpad_right", 0)) THEN 1 ELSE IF Truthy(Get(buttons, "dpad_left", 0)) THEN 2 ELSE 0

SpeedModeOf(buttons) == IF Truthy(Get(buttons, "L1", 0)) THEN 0 ELSE 1

\* the wheel-speed level, hand-forward latch and lift value after the ESTOP override
WheelNotOverridden(estop, wheel) == wheel

WheelAlwaysZeroed(estop, wheel) == 0

WheelAfterOverride(estop, wheel) == IF estop THEN 0 ELSE wheel

HandKeptInEstop(estop, hand) == hand

HandAfterOverride(estop, hand) == IF estop THEN 0 ELSE hand

LiftNotOverridden(estop, lift) == lift

LiftAfterOverride(estop, lift) == IF estop THEN 0 ELSE lift

TimestampNotAdvanced(ts) == ts

TimestampWrapsAtFour(ts) == BitAnd(ts + 1, 3)

NextTimestamp(ts) == BitAnd(ts + 1, 7)

VelocityByteAllNegated(c, v) == _duty_to_signed_byte(-_stick_to_duty(v))

\* the velocity byte build_frame derives from the stick value of a velocity
\* channel: negated for left_y (vel_x) and left_x (vel_y), not for right_x (vel_yaw)
VelocityByte(c, v) == IF c \in {"left_y", "left_x"} THEN _duty_to_signed_byte(-_stick_to_duty(v)) ELSE _duty_to_signed_byte(_stick_to_duty(v))

\* the six data bytes of the frame
FrameData(snapshot, ts, estop, wheel, hand) == <<_build_header(estop, DATATYPE_CMD1, ts), VelocityByte("left_y", Get(snapshot.analog, "left_y", 128)), VelocityByte("left_x", Get(snapshot.analog, "left_x", 128)), VelocityByte("right_x", Get(snapshot.analog, "right_x", 128)), _build_firing(wheel, FireOf(snapshot.buttons), LiftAfterOverride(estop, LiftOf(snapshot.buttons)), hand, Get(snapshot.buttons, "triangle", 0)), _build_opt2(SpeedModeOf(snapshot.buttons), MgOf(snapshot.buttons))>>

FrameCrcShifted(data) == calc_crc8(Tail(data) \o <<0, 0>>)

\* the CRC byte: calc_crc8 over the six data bytes followed by the 0x00 placeholder
FrameCrc(data) == calc_crc8(data \o <<0>>)

build_frame(snapshot) == LET ts == NextTimestamp(_timestamp)
                             wheel == WheelAfterOverride(_is_estop, _wheel_speed)
                             hand == HandAfterOverride(_is_estop, HandOf(snapshot.buttons, _hand_forward))
                             data == FrameData(snapshot, ts, _is_estop, wheel, hand)
                         IN /\ mode = "created"
                            /\ _timestamp' = ts
                            /\ _wheel_speed' = wheel
                            /\ _hand_forward' = hand
                            /\ frame' = data \o <<FrameCrc(data)>>
                            /\ snap' = snapshot
                            /\ prev_ts' = (IF frame = <<>> THEN NoFrame ELSE DecTimestamp(frame))
                            /\ estop_at_build' = _is_estop
                            /\ wheel_before' = _wheel_speed
                            /\ UNCHANGED <<_is_estop, estop_cleared, mode>>

set_estop(is_estop) == /\ mode = "created"
                       /\ _is_estop' = is_estop
                       /\ estop_cleared' = (estop_cleared \/ ~is_estop)
                       /\ UNCHANGED <<_timestamp, _wheel_speed, _hand_forward, frame, snap, prev_ts, estop_at_build, wheel_before, mode>>

WheelUpUnbounded(w) == w + 1

\* the level after wheel_speed_up / wheel_speed_down
WheelUp(w) == IF w < 3 THEN w + 1 ELSE w

WheelDown(w) == IF w > 0 THEN w - 1 ELSE w

wheel_speed_up == /\ mode = "created"
                  /\ _wheel_speed' = WheelUp(_wheel_speed)
                  /\ UNCHANGED <<_timestamp, _is_estop, _hand_forward, frame, snap, prev_ts, estop_at_build, estop_cleared, wheel_before, mode>>

wheel_speed_down == /\ mode = "created"
                    /\ _wheel_speed' = WheelDown(_wheel_speed)
                    /\ UNCHANGED <<_timestamp, _is_estop, _hand_forward, frame, snap, prev_ts, estop_at_build, estop_cleared, wheel_before, mode>>

BuildFrame == \E snapshot \in Snapshots : build_frame(snapshot)

SetEstop == \E b \in BOOLEAN : set_estop(b)

tblCtl == <<_lock, constructed, w_pc, w_op, w_i, r_pc, r_buttons, result, result_views, committed, at_copy, op_at_copy, dirty_at_copy, last_op, dirty_at_reset>>

EncOnly == UNCHANGED <<tblVars, rdrVars, sesVars, pureVars>>

TblOnly == UNCHANGED <<encVars, rdrVars, sesVars, pureVars>>

RdrOnly == UNCHANGED <<encVars, tblCtl, sesVars, pureVars, t_old>>

\* no pure function is being exercised
PureOff == /\ p_fn = "none"
           /\ p_arg = [raw |-> 0, lo |-> 0, hi |-> 255, ch |-> "left_x"]
           /\ p_out = 0

\* no snapshot tick was taken and no frame was emitted
NoTicks == [ticks |-> 0, prev_up |-> 0, prev_down |-> 0, prev_pulse |-> "none", up_calls |-> 0, down_calls |-> 0, frames |-> 0]

NoEmits == [since |-> -1, gap |-> -1, frame_count |-> 0]

\* no session of main.py is running
SessionOff == /\ s_kind = "none"
              /\ s_pc = "off"
              /\ exit_cause = "none"
              /\ stop_ran = FALSE
              /\ prev_wheel_up = 0
              /\ prev_wheel_down = 0
              /\ elapsed = 0
              /\ tick_log = NoTicks
              /\ emit_log = NoEmits

\* the encoder driven through its public operations
Init == PureOff /\ NoEncoder /\ TableIdle /\ ReaderNew /\ SessionOff

Next == \/ TKGTransmitter_init /\ EncOnly
        \/ DryRunCreate /\ EncOnly
        \/ BuildFrame /\ EncOnly
        \/ SetEstop /\ EncOnly
        \/ wheel_speed_up /\ EncOnly
        \/ wheel_speed_down /\ EncOnly

Spec == Init /\ [][Next]_vars

\* the Input State Table used by an updating thread and a snapshot thread
InitTable == PureOff /\ NoEncoder /\ TableNew /\ ReaderNew /\ SessionOff

NextTable == \/ CallUpdateButton /\ TblOnly
             \/ CallUpdateAnalog /\ TblOnly
             \/ CallReset /\ TblOnly
             \/ WAcquire /\ TblOnly
             \/ UpdateButtonBody /\ TblOnly
             \/ UpdateAnalogBody /\ TblOnly
             \/ ResetButtonStep /\ TblOnly
             \/ ResetAnalogStep /\ TblOnly
             \/ CallSnapshot /\ TblOnly
             \/ RAcquire /\ TblOnly
             \/ CopyButtons /\ TblOnly
             \/ CopyAnalog /\ TblOnly

SpecTable == InitTable /\ [][NextTable]_vars

\* a reader session: the ingestion thread, the thread that iterates and stops
\* the reader, and the device
InitReader == PureOff /\ NoEncoder /\ TableIdle /\ ReaderNew /\ SessionOff

NextReader == \/ Disconnect /\ RdrOnly
              \/ Iter /\ RdrOnly
              \/ LoopCheck /\ RdrOnly
              \/ ReadNothing /\ RdrOnly
              \/ ReadDropped /\ RdrOnly
              \/ ReadEvent /\ RdrOnly
              \/ Apply /\ RdrOnly
              \/ Hat2 /\ RdrOnly
              \/ NextCall /\ RdrOnly
              \/ NextCheck /\ RdrOnly
              \/ NextSnapshot /\ RdrOnly
              \/ StopCall /\ RdrOnly
              \/ StopReset /\ RdrOnly
              \/ StopClose /\ RdrOnly

SpecReader == InitReader /\ [][NextReader]_vars

-----------------------------------------------------------------------------
(* main.py: a reader on which __iter__ is called more than once.  The thread *)
(* of the last call is the ingestion thread above; the thread of the call    *)
(* before it is followed by whole loop iterations.                           *)

IterOnly == UNCHANGED <<encVars, tblCtl, sesVars, pureVars>>

\* DualShockReader.__iter__ called again, between other calls of the caller:
\* _running = True and a new thread, whatever the thread before it is doing
\* (two threads are followed: the call waits here while an older one lives)
IterAgain == /\ c_pc \in {"idle", "stopped", "ended"}
             /\ t_old \in {"none", "exited"}
             /\ _running' = TRUE
             /\ t_old' = (IF t_pc = "exited" THEN "exited" ELSE "loop")
             /\ t_pc' = "loop"
             /\ c_pc' = "idle"
             /\ UNCHANGED <<tableData, dev_alive, dev_open, t_ev, tick_lost, yielded, yield_lost, stop_called, tick_after_stop>>

\* _event_loop of the earlier thread: "while self._running"
OldLoopCheck == /\ t_old = "loop"
                /\ t_old' = (IF _running THEN "body" ELSE "exited")
                /\ UNCHANGED <<tableData, _running, dev_alive, dev_open, t_pc, t_ev, c_pc, tick_lost, yielded, yield_lost, stop_called, tick_after_stop>>

\* _event_loop of the earlier thread: one iteration, which reads nothing, drops
\* the event, or routes it to the table (both updates of a hat event at once)
OldIteration == /\ t_old = "body"
                /\ t_old' = "loop"
                /\ \/ UNCHANGED tableData
                   \/ /\ dev_alive /\ dev_open
                      /\ \E e \in Events :
                            /\ e.type \in {EV_KEY, EV_ABS}
                            /\ e.code \in DOMAIN get_event_mapping
                            /\ LET route == get_event_mapping[e.code]
                               IN IF route[2] = "button" THEN _buttons' = Put(_buttons, route[1], e.value) /\ UNCHANGED _analog
                                  ELSE IF route[2] = "analog" THEN _analog' = Put(_analog, route[1], e.value) /\ UNCHANGED _buttons
                                  ELSE /\ _buttons' = Put(Put(_buttons, HatFirst(route[1], e.value)[1], HatFirst(route[1], e.value)[2]), HatSecond(route[1], e.value)[1], HatSecond(route[1], e.value)[2])
                                       /\ UNCHANGED _analog
                /\ UNCHANGED <<_running, dev_alive, dev_open, t_pc, t_ev, c_pc, tick_lost, yielded, yield_lost, stop_called, tick_after_stop>>

NextIter == \/ Disconnect /\ RdrOnly
            \/ Iter /\ RdrOnly
            \/ LoopCheck /\ RdrOnly
            \/ ReadNothing /\ RdrOnly
            \/ ReadDropped /\ RdrOnly
            \/ ReadEvent /\ RdrOnly
            \/ Apply /\ RdrOnly
            \/ Hat2 /\ RdrOnly
            \/ NextCall /\ RdrOnly
            \/ NextCheck /\ RdrOnly
            \/ NextSnapshot /\ RdrOnly
            \/ StopCall /\ RdrOnly
            \/ StopReset /\ RdrOnly
            \/ StopClose /\ RdrOnly
            \/ IterAgain /\ IterOnly
            \/ OldLoopCheck /\ IterOnly
            \/ OldIteration /\ IterOnly

SpecIter == InitReader /\ [][NextIter]_vars

-----------------------------------------------------------------------------
(* main.py: a session of _run_json_mode / _run_tkg_mode after the reader was *)
(* created.  __next__ is one step here and yields what the ingestion thread  *)
(* left in the table.                                                        *)

\* the buttons held on a snapshot tick of a session
TickHeld == {{}, {"select"}, {"start"}, {"select", "start"}, {"dpad_up"}, {"dpad_down"}, {"square"}, {"R1"}}

TickSnapshots == {[buttons |-> [b \in ButtonNames |-> IF b \in h THEN 1 ELSE 0], analog |-> NeutralAnalog] : h \in TickHeld}

\* send_interval = 1.0 / hz, in snapshot periods
SEND_INTERVAL == 3

\* the snapshot periods one __next__ call can take
TickQuanta == {1, 2}

sesRdr == <<_running, dev_open, _buttons, _analog, yielded>>

sesLoc == <<prev_wheel_up, prev_wheel_down, elapsed>>

sesLog == <<tick_log, emit_log>>

SesOnly == UNCHANGED <<tblCtl, dev_alive, t_pc, t_ev, c_pc, tick_lost, yield_lost, stop_called, tick_after_stop, t_old, pureVars>>

\* the reader exists; _run_tkg_mode is about to create the transmitter,
\* _run_json_mode is about to iterate
SessionStart == /\ s_kind \in {"json", "tkg_serial", "tkg_dry"}
                /\ s_pc = (IF s_kind = "json" THEN "iter" ELSE "create_tx")
                /\ exit_cause = "none"
                /\ stop_ran = FALSE
                /\ prev_wheel_up = 0
                /\ prev_wheel_down = 0
                /\ elapsed = SEND_INTERVAL
                /\ tick_log = NoTicks
                /\ emit_log = NoEmits

\* _run_tkg_mode: the transmitter is created and the loop locals are set
SessCreateTransmitter == /\ s_pc = "create_tx"
                         /\ IF s_kind = "tkg_dry" THEN DryRunCreate ELSE TKGTransmitter_init
                         /\ s_pc' = "iter"
                         /\ UNCHANGED <<s_kind, exit_cause, stop_ran, sesLoc, sesLog, sesRdr>>

\* _run_tkg_mode: serial.Serial(...) in TKGTransmitter.__init__ raises (the port
\* cannot be opened); no except clause matches and the function is left
SessSerialOpenFails == /\ s_pc = "create_tx" /\ s_kind = "tkg_serial"
                       /\ s_pc' = "exited"
                       /\ exit_cause' = "error"
                       /\ UNCHANGED <<s_kind, stop_ran, sesLoc, sesLog, sesRdr, encVars>>

\* "for snapshot in reader": __iter__
SessIter == /\ s_pc = "iter"
            /\ _running' = TRUE
            /\ s_pc' = "next"
            /\ UNCHANGED <<s_kind, exit_cause, stop_ran, sesLoc, sesLog, dev_open, _buttons, _analog, yielded, encVars>>

\* the button build_frame would read for the hand latch, if one is held
HandButtonHeld(buttons) == IF Truthy(Get(buttons, "square", 0)) THEN "square"
                           ELSE IF Truthy(Get(buttons, "R1", 0)) THEN "R1" ELSE "none"

\* the hand button held on the tick before, when the rate limit dropped that tick
DroppedPulse == IF tick_log.ticks > 0 /\ tick_log.frames = 0 /\ yielded # NoSnapshot
                THEN HandButtonHeld(yielded.buttons) ELSE "none"

\* a time difference, capped at the send interval
CapInterval(t) == IF t > SEND_INTERVAL THEN SEND_INTERVAL ELSE t

\* "for snapshot in reader": one __next__ call, which returns the normalized table
SessTick == /\ s_pc = "next" /\ _running
            /\ \E snapshot \in TickSnapshots : /\ _buttons' = snapshot.buttons
                                               /\ _analog' = snapshot.analog
                                               /\ yielded' = normalize(snapshot)
            /\ \E d \in TickQuanta : /\ elapsed' = CapInterval(elapsed + d)
                                      /\ emit_log' = [emit_log EXCEPT !.since = IF @ = -1 THEN -1 ELSE CapInterval(@ + d)]
            /\ tick_log' = [ticks |-> IF tick_log.ticks = 0 THEN 1 ELSE 2,
                            prev_up |-> IF yielded = NoSnapshot THEN 0 ELSE Get(yielded.buttons, "dpad_up", 0),
                            prev_down |-> IF yielded = NoSnapshot THEN 0 ELSE Get(yielded.buttons, "dpad_down", 0),
                            prev_pulse |-> DroppedPulse,
                            up_calls |-> 0, down_calls |-> 0, frames |-> 0]
            /\ s_pc' = (IF s_kind = "json" THEN "print" ELSE "controls")
            /\ UNCHANGED <<s_kind, exit_cause, stop_ran, prev_wheel_up, prev_wheel_down, _running, dev_open, encVars>>

\* _run_json_mode: the loop body prints the snapshot
SessPrint == /\ s_pc = "print"
             /\ s_pc' = "next"
             /\ UNCHANGED <<s_kind, exit_cause, stop_ran, sesLoc, sesLog, sesRdr, encVars>>

\* _run_json_mode: print raises (stdout is closed); no except clause matches
SessPrintFails == /\ s_pc = "print"
                  /\ s_pc' = "exited"
                  /\ exit_cause' = "error"
                  /\ UNCHANGED <<s_kind, stop_ran, sesLoc, sesLog, sesRdr, encVars>>

\* the rate-limit test "now - last_send_time < send_interval"
NeverLimited == FALSE

RateLimited == elapsed < SEND_INTERVAL

\* the safety-stop control of a tick: set_estop(True) when select is held,
\* elif start is held set_estop(False)
EstopStartFirst(buttons, estop) == IF Truthy(Get(buttons, "start", 0)) THEN FALSE ELSE IF Truthy(Get(buttons, "select", 0)) THEN TRUE ELSE estop

EstopControl(buttons, estop) == IF Truthy(Get(buttons, "select", 0)) THEN TRUE ELSE IF Truthy(Get(buttons, "start", 0)) THEN FALSE ELSE estop

\* the edge test "cur and not prev" of a wheel-speed button
EdgeWhileHeld(cur, prev) == Truthy(cur)

RisingEdge(cur, prev) == Truthy(cur) /\ ~Truthy(prev)

\* _run_tkg_mode: the loop body up to the rate-limit test: the safety-stop
\* control, the wheel-speed edge detection, and "continue" or the bookkeeping
\* of a send
SessControls == /\ s_pc = "controls"
                /\ LET buttons == yielded.buttons
                       select == Truthy(Get(buttons, "select", 0))
                       start == Truthy(Get(buttons, "start", 0))
                       cur_wheel_up == Get(buttons, "dpad_up", 0)
                       cur_wheel_down == Get(buttons, "dpad_down", 0)
                       calls_up == RisingEdge(cur_wheel_up, prev_wheel_up)
                       calls_down == RisingEdge(cur_wheel_down, prev_wheel_down)
                       up == IF calls_up THEN WheelUp(_wheel_speed) ELSE _wheel_speed
                   IN /\ _is_estop' = EstopControl(buttons, _is_estop)
                      /\ estop_cleared' = (estop_cleared \/ (~select /\ start))
                      /\ _wheel_speed' = (IF calls_down THEN WheelDown(up) ELSE up)
                      /\ tick_log' = [tick_log EXCEPT !.up_calls = IF calls_up THEN 1 ELSE 0,
                                                      !.down_calls = IF calls_down THEN 1 ELSE 0]
                      /\ prev_wheel_up' = cur_wheel_up
                      /\ prev_wheel_down' = cur_wheel_down
                /\ IF RateLimited
                   THEN s_pc' = "next" /\ UNCHANGED elapsed
                   ELSE s_pc' = "emit" /\ elapsed' = 0
                /\ UNCHANGED <<s_kind, exit_cause, stop_ran, sesRdr, emit_log, _timestamp, _hand_forward, frame, estop_at_build, snap, prev_ts, wheel_before, mode>>

\* _run_tkg_mode: build_frame, then send or _print_decoded_frame
SessEmit == /\ s_pc = "emit"
            /\ build_frame(yielded)
            /\ tick_log' = [tick_log EXCEPT !.frames = @ + 1]
            /\ emit_log' = [since |-> 0, gap |-> emit_log.since,
                            frame_count |-> (emit_log.frame_count + 1) % 8]
            /\ s_pc' = "next"
            /\ UNCHANGED <<s_kind, exit_cause, stop_ran, sesLoc, sesRdr>>

\* _run_tkg_mode: build_frame, then send (or the print of the dry run) raises;
\* no except clause matches, the finally clause closes the serial port only
SessEmitFails == /\ s_pc = "emit"
                 /\ build_frame(yielded)
                 /\ tick_log' = [tick_log EXCEPT !.frames = @ + 1]
                 /\ emit_log' = [emit_log EXCEPT !.frame_count = (@ + 1) % 8]
                 /\ s_pc' = "exited"
                 /\ exit_cause' = "error"
                 /\ UNCHANGED <<s_kind, stop_ran, sesLoc, sesRdr>>

\* whether the KeyboardInterrupt handler reaches reader.stop(): the dry-run
\* handler reads start_time first, which is unbound until the loop locals are set
HandlerReachesStop == ~(s_kind = "tkg_dry" /\ s_pc = "create_tx")

\* KeyboardInterrupt anywhere in the try block: the handler calls reader.stop()
\* (_running = False, reset, close) and the function is left
SessInterrupt == /\ s_pc \in {"create_tx", "iter", "next", "controls", "emit", "print"}
                 /\ IF HandlerReachesStop
                    THEN /\ _running' = FALSE
                         /\ _buttons' = ResetButtons(_buttons)
                         /\ _analog' = ResetAnalog(_analog)
                         /\ dev_open' = FALSE
                         /\ stop_ran' = TRUE
                    ELSE UNCHANGED <<_running, _buttons, _analog, dev_open, stop_ran>>
                 /\ s_pc' = "exited"
                 /\ exit_cause' = "interrupt"
                 /\ UNCHANGED <<s_kind, sesLoc, sesLog, yielded, encVars>>

InitSession == PureOff /\ NoEncoder /\ TableIdle /\ ReaderNew /\ SessionStart

NextSession == \/ SessCreateTransmitter /\ SesOnly
               \/ SessSerialOpenFails /\ SesOnly
               \/ SessIter /\ SesOnly
               \/ SessTick /\ SesOnly
               \/ SessPrint /\ SesOnly
               \/ SessPrintFails /\ SesOnly
               \/ SessControls /\ SesOnly
               \/ SessEmit /\ SesOnly
               \/ SessEmitFails /\ SesOnly
               \/ SessInterrupt /\ SesOnly

SpecSession == InitSession /\ [][NextSession]_vars

-----------------------------------------------------------------------------
(* The pure conversions of mapper.py and tkg_transmitter.py applied to drawn *)
(* inputs                                                                    *)

\* raw values: every value from below the smallest to above the largest of the
\* small ranges, and the ends of a 16-bit axis with values beyond them
RawValues == (-150 .. 720) \cup {-40000, -32768, 32767, 40000}

\* declared ranges <<min, max>> of a continuous channel; the last has min = max
Ranges == {<<0, 255>>, <<-128, 127>>, <<0, 1>>, <<0, 100>>, <<-5, 700>>, <<-32768, 32767>>, <<7, 7>>}

PureInputs == {[raw |-> v, lo |-> r[1], hi |-> r[2], ch |-> c] : v \in RawValues, r \in Ranges, c \in AnalogNames}

PureStart == /\ p_fn = "none"
             /\ p_arg \in PureInputs
             /\ p_out = 0

\* Mapper._normalize_value(raw, dev_min, dev_max)
ApplyNormalizeValue == /\ p_fn = "none"
                       /\ p_fn' = "_normalize_value"
                       /\ p_out' = _normalize_value(p_arg.raw, p_arg.lo, p_arg.hi)
                       /\ UNCHANGED p_arg

\* Mapper.normalize on a snapshot that holds the drawn raw value on one channel
ApplyNormalize == /\ p_fn = "none"
                  /\ p_fn' = "normalize"
                  /\ p_out' = normalize([buttons |-> AllReleased, analog |-> [c \in {p_arg.ch} |-> p_arg.raw]]).analog[p_arg.ch]
                  /\ UNCHANGED p_arg

\* _duty_to_signed_byte(raw / 128.0)
ApplyDutyToSignedByte == /\ p_fn = "none"
                         /\ p_fn' = "_duty_to_signed_byte"
                         /\ p_out' = _duty_to_signed_byte(p_arg.raw)
                         /\ UNCHANGED p_arg

\* the velocity byte of build_frame for a stick value 0..255 on a velocity channel
ApplyVelocityByte == /\ p_fn = "none"
                     /\ p_arg.raw \in 0..255
                     /\ p_arg.ch \in {"left_y", "left_x", "right_x"}
                     /\ p_fn' = "velocity"
                     /\ p_out' = VelocityByte(p_arg.ch, p_arg.raw)
                     /\ UNCHANGED p_arg

PureOnly == UNCHANGED <<encVars, tblVars, rdrVars, sesVars>>

InitPure == PureStart /\ NoEncoder /\ TableIdle /\ ReaderNew /\ SessionOff

NextPure == \/ ApplyNormalizeValue /\ PureOnly
            \/ ApplyNormalize /\ PureOnly
            \/ ApplyDutyToSignedByte /\ PureOnly
            \/ ApplyVelocityByte /\ PureOnly

SpecPure == InitPure /\ [][NextPure]_vars

-----------------------------------------------------------------------------
(* The frame functions of tkg_transmitter.py applied to drawn inputs         *)

\* byte values that between them show every hexadecimal digit
SampleBytes == {0, 10, 37, 63, 71, 134, 155, 163, 193, 222, 255}

\* 7-byte frames
SampleFrames == {<<a, b, c, 127, d, 0, e>> : a \in SampleBytes, b \in SampleBytes, c \in {0, 193, 255}, d \in {0, 193, 255}, e \in {0, 163, 255}}

\* the drawn inputs: a frame together with another value for its byte 6 (for
\* calc_crc8), the five fields of byte 4 (for _build_firing), the three
\* arguments of _build_header, and a frame (for _format_wire)
CodecInputs == {[kind |-> "crc", data |-> f \o <<x>>] : f \in SampleFrames, x \in {1, 163, 254}}
               \cup {[kind |-> "firing", data |-> <<w, f, l, h, a>>] : w \in 0..3, f \in 0..3, l \in 0..3, h \in 0..1, a \in 0..1}
               \cup {[kind |-> "header", data |-> <<e, t, n>>] : e \in BOOLEAN, t \in 0..3, n \in 0..7}
               \cup {[kind |-> "wire", data |-> f] : f \in SampleFrames}

CodecStart == /\ p_fn = "none"
              /\ p_arg \in CodecInputs
              /\ p_out = 0

\* calc_crc8 on the drawn frame and on the frame with the other byte 6
ApplyCalcCrc8 == /\ p_fn = "none" /\ p_arg.kind = "crc"
                 /\ p_fn' = "calc_crc8"
                 /\ p_out' = <<calc_crc8(SubSeq(p_arg.data, 1, 7)), calc_crc8([SubSeq(p_arg.data, 1, 7) EXCEPT ![7] = p_arg.data[8]])>>
                 /\ UNCHANGED p_arg

ApplyBuildFiring == /\ p_fn = "none" /\ p_arg.kind = "firing"
                    /\ p_fn' = "_build_firing"
                    /\ p_out' = _build_firing(p_arg.data[1], p_arg.data[2], p_arg.data[3], p_arg.data[4], p_arg.data[5])
                    /\ UNCHANGED p_arg

ApplyBuildHeader == /\ p_fn = "none" /\ p_arg.kind = "header"
                    /\ p_fn' = "_build_header"
                    /\ p_out' = _build_header(p_arg.data[1], p_arg.data[2], p_arg.data[3])
                    /\ UNCHANGED p_arg

ApplyFormatWire == /\ p_fn = "none" /\ p_arg.kind = "wire"
                   /\ p_fn' = "_format_wire"
                   /\ p_out' = _format_wire(p_arg.data)
                   /\ UNCHANGED p_arg

InitCodec == CodecStart /\ NoEncoder /\ TableIdle /\ ReaderNew /\ SessionOff

NextCodec == \/ ApplyCalcCrc8 /\ PureOnly
             \/ ApplyBuildFiring /\ PureOnly
             \/ ApplyBuildHeader /\ PureOnly
             \/ ApplyFormatWire /\ PureOnly

SpecCodec == InitCodec /\ [][NextCodec]_vars

-----------------------------------------------------------------------------
(* Properties of the encoder *)

Built == frame # <<>>

\* C1: every frame built while the safety-stop flag is set encodes wheel-speed 0,
\* hand-forward 0 and lift-mode 0, whatever the snapshot holds and whatever wheel
\* operations happened before the call.
C1_EstopZeroesWheelHandLift == Built /\ estop_at_build => DecWheel(frame) = 0 /\ DecHand(frame) = 0 /\ DecTaimatu(frame) = 0

\* a frame built under a safety-stop that was set again after being cleared, with
\* square held in the snapshot
C1_Witness == Built /\ estop_at_build /\ estop_cleared /\ snap.buttons["square"] = 1

\* C2 as stated: while the safety-stop flag is set every motion and actuation
\* field of the frame is 0: the three velocity bytes, wheel-speed, fire-mode,
\* lift-mode, hand-forward and secondary-action.
C2_EstopAllInert == Built /\ estop_at_build => frame[2] = 0 /\ frame[3] = 0 /\ frame[4] = 0 /\ DecWheel(frame) = 0 /\ DecFire(frame) = 0 /\ DecTaimatu(frame) = 0 /\ DecHand(frame) = 0 /\ DecMg(frame) = 0

\* C2 amended: while the safety-stop flag is set the frame has header bit 7 = 0
\* and zero in wheel-speed, lift-mode and hand-forward only; the velocity bytes,
\* fire-mode and secondary-action still encode the snapshot.
C2_EstopOverridesThreeFields == Built /\ estop_at_build => /\ DecEstopBit(frame) = 0
                                                            /\ DecWheel(frame) = 0 /\ DecTaimatu(frame) = 0 /\ DecHand(frame) = 0
                                                            /\ frame[2] = _duty_to_signed_byte(128 - Get(snap.analog, "left_y", 128))
                                                            /\ frame[3] = _duty_to_signed_byte(128 - Get(snap.analog, "left_x", 128))
                                                            /\ frame[4] = _duty_to_signed_byte(Get(snap.analog, "right_x", 128) - 128)
                                                            /\ DecFire(frame) = (IF snap.buttons["circle"] = 1 THEN 2 ELSE snap.buttons["cross"])
                                                            /\ DecMg(frame) = (IF snap.buttons["dpad_right"] = 1 THEN 1 ELSE 2 * snap.buttons["dpad_left"])

\* a safety-stop frame built from a snapshot with dpad_up held
C2_Witness == Built /\ estop_at_build /\ snap.buttons["dpad_up"] = 1

\* C3: every frame built before the first set_estop(False) has header bit 7 = 0,
\* whichever of the two constructions created the encoder.
C3_NewEncoderInEstop == Built /\ ~estop_cleared => DecEstopBit(frame) = 0

\* a frame built by an encoder on which set_estop(False) was never called
C3_Witness == Built /\ ~estop_cleared /\ mode = "created"

\* C4: every frame has exactly 7 bytes, each in 0..255, and byte 6 is calc_crc8 of
\* the frame (which reads bytes 0..5).
C4_FrameWellFormed == Built => Len(frame) = 7 /\ (\A k \in 1..7 : frame[k] \in 0..255) /\ frame[7] = calc_crc8(frame)

\* a frame with non-zero velocity, discrete and checksum bytes
C4_Witness == Built /\ frame[2] # 0 /\ frame[5] # 0 /\ frame[7] # 0

\* C5: header bit 7 is 0 exactly when the safety-stop flag was set at the call,
\* the frame-type field is 1 and the reserved bits 1-0 are 0.
C5_HeaderFields == Built => (DecEstopBit(frame) = 0 <=> estop_at_build) /\ DecDatatype(frame) = 1 /\ frame[1] % 4 = 0

\* a frame built outside safety-stop
C5_Witness == Built /\ ~estop_at_build /\ DecEstopBit(frame) = 1

\* C6: the timestamp field of a frame that follows an earlier frame of the same
\* encoder is the earlier frame's timestamp + 1 modulo 8, whatever set_estop and
\* wheel operations happened in between.
C6_TimestampIncrements == Built /\ prev_ts # NoFrame => DecTimestamp(frame) = (prev_ts + 1) % 8

\* a frame whose timestamp wrapped from 7 to 0, built after the flag and the
\* wheel-speed level were changed
C6_Witness == Built /\ prev_ts = 7 /\ DecTimestamp(frame) = 0 /\ estop_cleared /\ _wheel_speed = 2

\* the signed value of a byte read as two's complement
Signed(b) == IF b >= 128 THEN b - 256 ELSE b

\* the stick values build_frame read from the snapshot of the last frame
SnapLeftY == Get(snap.analog, "left_y", 128)

SnapLeftX == Get(snap.analog, "left_x", 128)

SnapRightX == Get(snap.analog, "right_x", 128)

\* C15 as stated: byte 1 follows the negated left_y deflection, byte 2 the negated
\* left_x deflection and byte 3 the right_x deflection: a value below 128 gives a
\* positive byte 1 / byte 2 and a negative byte 3, a value above 128 the opposite
\* sign, and 128 or a missing channel gives 0x00.
C15_VelocitySigns == Built => /\ (SnapLeftY < 128 => Signed(frame[2]) > 0) /\ (SnapLeftY > 128 => Signed(frame[2]) < 0) /\ (SnapLeftY = 128 => frame[2] = 0)
                              /\ (SnapLeftX < 128 => Signed(frame[3]) > 0) /\ (SnapLeftX > 128 => Signed(frame[3]) < 0) /\ (SnapLeftX = 128 => frame[3] = 0)
                              /\ (SnapRightX < 128 => Signed(frame[4]) < 0) /\ (SnapRightX > 128 => Signed(frame[4]) > 0) /\ (SnapRightX = 128 => frame[4] = 0)

\* C15 amended: the signs are as stated for values at most 126 and at least 130;
\* the values 127, 128 and 129 and a missing channel give 0x00.
C15_VelocitySignsBeyondOne == Built => /\ (SnapLeftY <= 126 => Signed(frame[2]) > 0) /\ (SnapLeftY >= 130 => Signed(frame[2]) < 0) /\ (SnapLeftY \in 127..129 => frame[2] = 0)
                                       /\ (SnapLeftX <= 126 => Signed(frame[3]) > 0) /\ (SnapLeftX >= 130 => Signed(frame[3]) < 0) /\ (SnapLeftX \in 127..129 => frame[3] = 0)
                                       /\ (SnapRightX <= 126 => Signed(frame[4]) < 0) /\ (SnapRightX >= 130 => Signed(frame[4]) > 0) /\ (SnapRightX \in 127..129 => frame[4] = 0)

\* a frame built from left_y = 255, left_x = 0, right_x = 64
C15_Witness == Built /\ "left_y" \in DOMAIN snap.analog /\ SnapLeftY = 255 /\ SnapLeftX = 0 /\ SnapRightX = 64 /\ Signed(frame[2]) = -126 /\ Signed(frame[3]) = 127 /\ Signed(frame[4]) = -63

\* C18: the speed-mode bit of every frame is 0 when L1 is not held in the encoded
\* snapshot and 1 when L1 is held.
C18_SpeedModeFollowsL1 == Built => DecSpdMode(frame) = (IF snap.buttons["L1"] = 1 THEN 1 ELSE 0)

\* C19 as stated: a build_frame call (the only step that changes _timestamp)
\* leaves the stored wheel-speed level as it was.
C19_BuildKeepsWheel == [][_timestamp' # _timestamp => _wheel_speed' = _wheel_speed]_vars

\* C19 amended: a build_frame call leaves the stored wheel-speed level as it was
\* when the safety-stop flag is clear and sets it to 0 when the flag is set.
C19_BuildResetsWheelInEstop == [][_timestamp' # _timestamp => _wheel_speed' = (IF _is_estop THEN 0 ELSE _wheel_speed)]_vars

\* a frame built under safety-stop when the stored level was 2: the level is 0
\* in the frame
C19_Witness == Built /\ estop_at_build /\ wheel_before = 2 /\ DecWheel(frame) = 0

\* C20: the wheel-speed level is an integer in 0..3 after every call;
\* wheel_speed_up adds 1 except at 3, wheel_speed_down subtracts 1 except at 0.
C20_WheelLevelSaturates == [][/\ _wheel_speed' \in 0..3
                              /\ (wheel_speed_up => _wheel_speed' = (IF _wheel_speed = 3 THEN 3 ELSE _wheel_speed + 1))
                              /\ (wheel_speed_down => _wheel_speed' = (IF _wheel_speed = 0 THEN 0 ELSE _wheel_speed - 1))]_vars

\* the level at 3 after a frame was built outside safety-stop with the level at 2
C20_Witness == Built /\ ~estop_at_build /\ wheel_before = 2 /\ _wheel_speed = 3

\* C22: across a build_frame call made outside safety-stop the hand-forward bit
\* of the new frame is 1 when square is held, 0 when R1 is held and square is
\* not, and otherwise the bit of the frame before (0 when there was none).
C22_HandForwardLatch == [][(_timestamp' # _timestamp /\ ~_is_estop) =>
    DecHand(frame') = (IF snap'.buttons["square"] = 1 THEN 1
                       ELSE IF snap'.buttons["R1"] = 1 THEN 0
                       ELSE IF Built THEN DecHand(frame) ELSE 0)]_vars

\* a frame built outside safety-stop with square and R1 released that still
\* carries hand-forward = 1
C22_Witness == Built /\ ~estop_at_build /\ snap.buttons["square"] = 0 /\ snap.buttons["R1"] = 0 /\ DecHand(frame) = 1 /\ _hand_forward = 1

\* C23: fire-mode is 2 when circle is held, whatever cross is, 1 when cross is
\* held and circle is not, 0 when neither is held; the fire-angle bit is the
\* value of the triangle channel.
C23_FireModeAndAngle == Built =>
    /\ DecFire(frame) = (IF snap.buttons["circle"] = 1 THEN 2 ELSE IF snap.buttons["cross"] = 1 THEN 1 ELSE 0)
    /\ DecAngle(frame) = snap.buttons["triangle"]

\* a frame built with circle and cross both held
C23_Witness == Built /\ snap.buttons["circle"] = 1 /\ snap.buttons["cross"] = 1 /\ DecFire(frame) = 2 /\ DecAngle(frame) = 0

\* C24: outside safety-stop lift-mode is 1 when dpad_up is held, even with
\* dpad_down, 2 when dpad_down is held and dpad_up is not, 0 when neither is.
C24_LiftMode == Built /\ ~estop_at_build =>
    DecTaimatu(frame) = (IF snap.buttons["dpad_up"] = 1 THEN 1 ELSE IF snap.buttons["dpad_down"] = 1 THEN 2 ELSE 0)

\* a frame built outside safety-stop with dpad_up and dpad_down both held
C24_Witness == Built /\ ~estop_at_build /\ snap.buttons["dpad_up"] = 1 /\ snap.buttons["dpad_down"] = 1 /\ DecTaimatu(frame) = 1

\* C25: the secondary-action field is 1 when dpad_right is held, even with
\* dpad_left, 2 when dpad_left is held and dpad_right is not, 0 when neither
\* is; the low 5 bits of byte 5 are 0.
C25_SecondaryAction == Built =>
    /\ DecMg(frame) = (IF snap.buttons["dpad_right"] = 1 THEN 1 ELSE IF snap.buttons["dpad_left"] = 1 THEN 2 ELSE 0)
    /\ frame[6] % 32 = 0

\* a frame built with dpad_right and dpad_left both held
C25_Witness == Built /\ snap.buttons["dpad_right"] = 1 /\ snap.buttons["dpad_left"] = 1 /\ DecMg(frame) = 1 /\ frame[6] # 0

\* C36: a build_frame call under safety-stop leaves the stored wheel-speed
\* level and hand-forward latch at 0; after such a frame the latch stays 0 and
\* the level is raised by wheel_speed_up only, whether or not the stop is
\* cleared; so the first frame built after the stop is cleared carries the
\* stored level (0 without a wheel_speed_up in between) and hand-forward 0
\* unless square is held in its snapshot.
C36_ClearDoesNotRestore == [][
    /\ (_timestamp' # _timestamp /\ _is_estop) => _wheel_speed' = 0 /\ _hand_forward' = 0
    /\ (Built /\ estop_at_build) => _hand_forward = 0
    /\ (Built /\ estop_at_build /\ _wheel_speed' > _wheel_speed) => wheel_speed_up
    /\ (Built /\ estop_at_build /\ _timestamp' # _timestamp /\ ~_is_estop) =>
            /\ DecWheel(frame') = _wheel_speed
            /\ DecHand(frame') = (IF snap'.buttons["square"] = 1 THEN 1 ELSE 0)]_vars

\* the stop was set with the level at 2, a frame was built under it and the
\* stop is cleared again: level and latch are 0
C36_Witness == /\ Built /\ estop_at_build /\ estop_cleared /\ ~_is_estop
               /\ wheel_before = 2 /\ _wheel_speed = 0 /\ _hand_forward = 0 /\ DecWheel(frame) = 0



-----------------------------------------------------------------------------
(* Properties of the Input State Table *)

\* C7: a snapshot taken when the last completed table operation is a reset (the
\* constructor's, or a later reset() after any updates) has every button 0, every
\* stick 128 and every trigger 0.
C7_ResetThenSnapshotNeutral == r_pc = "returned" /\ op_at_copy = "reset" => /\ \A b \in ButtonNames : result.buttons[b] = 0
                                                                            /\ \A c \in {"left_x", "left_y", "right_x", "right_y"} : result.analog[c] = 128
                                                                            /\ \A c \in {"L2", "R2"} : result.analog[c] = 0

\* a snapshot taken after a reset() that found the table off neutral
C7_Witness == r_pc = "returned" /\ op_at_copy = "reset" /\ dirty_at_copy

\* C8: every snapshot returned while another thread updates and resets the table
\* equals the table contents left by a completed operation (the contents when
\* the snapshot call made its copy): no partly applied reset, no mix of the
\* button map and the analog map of two instants.
C8_SnapshotIsPointInTime == r_pc = "returned" => result = at_copy /\ DOMAIN result.buttons = ButtonNames /\ DOMAIN result.analog = AnalogNames

\* a returned snapshot with a button and a stick off neutral while the other
\* thread is in the middle of a reset
C8_Witness == r_pc = "returned" /\ result.buttons["touchpad"] = 1 /\ result.analog["left_x"] = 255 /\ w_pc = "body" /\ w_op.name = "reset" /\ w_i = 5

\* C32: every snapshot of the table, and the normalized snapshot derived from
\* it, has an entry for each of the 16 button channels and each of the 6
\* analog channels, and the normalized buttons equal the raw ones.
C32_AllChannelsPresent == r_pc = "returned" =>
    /\ ButtonNames \subseteq DOMAIN result.buttons
    /\ AnalogNames \subseteq DOMAIN result.analog
    /\ ButtonNames \subseteq DOMAIN normalize(result).buttons
    /\ AnalogNames \subseteq DOMAIN normalize(result).analog
    /\ \A b \in ButtonNames : normalize(result).buttons[b] = result.buttons[b]

\* a snapshot taken after updates of a button and of a trigger
C32_Witness == /\ r_pc = "returned" /\ Cardinality(DOMAIN result.buttons) = 16 /\ Cardinality(DOMAIN normalize(result).analog) = 6
               /\ result.buttons["touchpad"] = 1 /\ normalize(result).buttons["touchpad"] = 1 /\ normalize(result).analog["R2"] = 255

\* C33: a completed update_button(c, v) or update_analog(c, v) leaves v in
\* channel c and every other channel as it was, and the snapshot that follows
\* returns the table as the last completed call left it.
C33_UpdateChangesOneChannel == [][
    /\ (w_pc = "body" /\ w_pc' = "idle" /\ w_op.name = "update_button") =>
            /\ _buttons'[w_op.ch] = w_op.val
            /\ \A b \in ButtonNames \ {w_op.ch} : _buttons'[b] = _buttons[b]
            /\ _analog' = _analog
    /\ (w_pc = "body" /\ w_pc' = "idle" /\ w_op.name = "update_analog") =>
            /\ _analog'[w_op.ch] = w_op.val
            /\ \A c \in AnalogNames \ {w_op.ch} : _analog'[c] = _analog[c]
            /\ _buttons' = _buttons
    /\ (r_pc = "copy_analog" /\ r_pc' = "returned") => result' = committed]_vars

\* a snapshot that shows the second value written to triangle, with the
\* value written to left_x before it still in place
C33_Witness == /\ r_pc = "returned" /\ last_op = "update_button" /\ w_op.ch = "triangle" /\ w_op.val = 0
               /\ result = committed /\ result.buttons["triangle"] = 0 /\ result.buttons["touchpad"] = 1 /\ result.analog["left_x"] = 255

\* what the InputSnapshot returned by the last snapshot call shows to its holder
SnapshotSeen == [buttons |-> IF "buttons" \in result_views THEN _buttons ELSE result.buttons,
                 analog |-> IF "analog" \in result_views THEN _analog ELSE result.analog]

-----------------------------------------------------------------------------
(* Properties of the reader session *)

\* C9: the snapshot returned by a __next__ call whose liveness check failed has
\* every channel at its neutral value.
C9_LostTickYieldsNeutral == c_pc = "idle" /\ yield_lost => IsNeutral(yielded)

\* C10: once stop() has returned and the ingestion thread has exited, the table
\* holds the neutral value on every channel and the device handle is closed.
C10_StoppedTableNeutral == c_pc = "stopped" /\ t_pc = "exited" => IsNeutral(Table) /\ ~dev_open

C31_OneIngestionThread == ~(t_old \in {"loop", "body"} /\ t_pc \in {"loop", "read", "apply", "hat2"})

\* the channels an event of the routing table is routed to
RoutedChannels(e) == IF e.code = ABS_HAT0X THEN {"dpad_left", "dpad_right"}
                     ELSE IF e.code = ABS_HAT0Y THEN {"dpad_up", "dpad_down"}
                     ELSE {get_event_mapping[e.code][1]}

\* every channel outside the set has the same value before and after the step
OnlyChanges(channels) == /\ \A b \in ButtonNames \ channels : _buttons'[b] = _buttons[b]
                         /\ \A c \in AnalogNames \ channels : _analog'[c] = _analog[c]

\* C35: a step of the ingestion loop that reads nothing or drops the event
\* (type neither key nor axis, or code not in the routing table) leaves the
\* table unchanged and goes back to the loop test; an event is only applied
\* when it is a key or axis event with a mapped code, and applying it changes
\* no channel other than those it is routed to.
C35_IngestionDropsAndRoutes == [][
    /\ (t_pc = "read" /\ t_pc' # "read") =>
            /\ _buttons' = _buttons /\ _analog' = _analog
            /\ t_pc' \in {"loop", "apply"}
            /\ t_pc' = "apply" => t_ev'.type \in {EV_KEY, EV_ABS} /\ t_ev'.code \in MappedCodes
    /\ (t_pc \in {"apply", "hat2"} /\ t_pc' # t_pc) => OnlyChanges(RoutedChannels(t_ev))
    /\ (t_pc = "loop" /\ t_pc' # "loop") => _buttons' = _buttons /\ _analog' = _analog]_vars

\* the loop has dropped an event with an unmapped code, after an event that it
\* applied, and runs on
C35_Witness == /\ t_pc = "loop" /\ _running /\ t_ev.code = UNMAPPED_CODE
               /\ _buttons["cross"] = 1 /\ _analog["left_x"] = 200



\* C30: in every snapshot a session yields, dpad_left and dpad_right are never
\* both 1 and dpad_up and dpad_down are never both 1, whatever hat events the
\* ingestion thread has taken and however it interleaves with __next__.
C30_DpadPairsExclusive == yielded # NoSnapshot =>
    /\ ~(yielded.buttons["dpad_left"] = 1 /\ yielded.buttons["dpad_right"] = 1)
    /\ ~(yielded.buttons["dpad_up"] = 1 /\ yielded.buttons["dpad_down"] = 1)


-----------------------------------------------------------------------------
(* Properties of a session *)

\* C11: on every exit of _run_json_mode / _run_tkg_mode after the reader was
\* created, the table reset and the device close of stop() have been executed.
C11_ExitRunsStop == s_pc = "exited" => stop_ran /\ ~dev_open /\ IsNeutral(Table)

\* the loop body of _run_tkg_mode has passed the wheel-speed edge detection of
\* a tick that had a tick before it
EdgesDone == s_kind \in {"tkg_serial", "tkg_dry"} /\ s_pc \in {"emit", "next"} /\ tick_log.ticks = 2

\* C21: on every snapshot tick of the bridging loop that follows another tick,
\* rate-limited or not, wheel_speed_up (wheel_speed_down) is called once when
\* dpad_up (dpad_down) was 0 on the tick before and is 1 now, and is not called
\* when the channel is still held or is 0.
C21_WheelEdgeOncePerPress == EdgesDone =>
    /\ tick_log.up_calls = (IF yielded.buttons["dpad_up"] = 1 /\ tick_log.prev_up = 0 THEN 1 ELSE 0)
    /\ tick_log.down_calls = (IF yielded.buttons["dpad_down"] = 1 /\ tick_log.prev_down = 0 THEN 1 ELSE 0)

\* a rate-limited tick on which dpad_up went from 0 to 1 and the level was raised
C21_Witness == /\ EdgesDone /\ s_pc = "next" /\ tick_log.frames = 0
               /\ yielded.buttons["dpad_up"] = 1 /\ tick_log.prev_up = 0
               /\ tick_log.up_calls = 1 /\ _wheel_speed > 0

\* C29: a tick of the bridging loop builds at most one frame, the frame is
\* built from the snapshot of that tick, and a frame that follows another one
\* is emitted at least SEND_INTERVAL after it.
C29_RateLimit == /\ tick_log.frames <= 1
                 /\ tick_log.frames = 1 => snap = yielded /\ DecTaimatu(frame) = (IF estop_at_build THEN 0 ELSE LiftOf(yielded.buttons))
                 /\ emit_log.gap # -1 => emit_log.gap >= SEND_INTERVAL

\* a second frame, emitted SEND_INTERVAL after the first, from a tick that
\* held dpad_down outside the safety stop
C29_Witness == /\ s_pc = "next" /\ tick_log.frames = 1 /\ emit_log.gap = SEND_INTERVAL
               /\ ~estop_at_build /\ yielded.buttons["dpad_down"] = 1 /\ DecTaimatu(frame) = 2

\* C34: every tick of the bridging loop, emitting or not, sets the safety-stop
\* flag when select is held (also with start), clears it when start is held
\* and select is not, and leaves it alone otherwise; no other step of the loop
\* changes the flag, and an emitted frame carries the flag as the ticks left it.
C34_EstopEveryTick == [][
    /\ (s_pc = "controls" /\ s_pc' \in {"next", "emit"}) =>
            _is_estop' = (IF yielded.buttons["select"] = 1 THEN TRUE
                          ELSE IF yielded.buttons["start"] = 1 THEN FALSE
                          ELSE _is_estop)
    /\ (s_pc \in {"iter", "next", "emit"}) => _is_estop' = _is_estop
    /\ (s_pc = "emit" /\ s_pc' = "next") => (DecEstopBit(frame') = 0 <=> _is_estop)]_vars

\* a safety-stop frame emitted from a tick without select, after the stop had
\* been cleared: select was seen on a tick that the rate limit dropped
C34_Witness == /\ s_pc = "next" /\ tick_log.frames = 1 /\ emit_log.gap = SEND_INTERVAL
               /\ estop_cleared /\ estop_at_build /\ DecEstopBit(frame) = 0
               /\ yielded.buttons["select"] = 0 /\ tick_log.ticks = 2

\* C37: the sequence counter advances only when a frame is built: no step of a
\* session other than the frame step changes it, so a tick dropped by the rate
\* limit leaves it alone; the frame emitted as number frame_count carries
\* timestamp frame_count mod 8, the first emitted frame carries 1, and an emitted
\* frame carries the timestamp of the frame before it plus one, modulo 8
C37_CounterAdvancesPerFrame == [][
    /\ s_pc # "emit" => _timestamp' = _timestamp
    /\ (s_pc = "emit" /\ s_pc' = "next") =>
            /\ DecTimestamp(frame') = emit_log'.frame_count
            /\ emit_log.since = -1 => DecTimestamp(frame') = 1
            /\ Built => DecTimestamp(frame') = (DecTimestamp(frame) + 1) % 8]_vars

\* eight frames were emitted, the eighth carries timestamp 0, and a later tick
\* was dropped by the rate limit without advancing the counter
C37_Witness == /\ s_pc = "next" /\ tick_log.ticks = 2 /\ tick_log.frames = 0
               /\ Built /\ DecTimestamp(frame) = 0
               /\ emit_log.frame_count = 0 /\ _timestamp = 0

\* C38 as stated: when square or R1 was held on a tick the rate limit dropped and
\* is released on the tick of the next frame, that frame encodes the same latch
\* value as the frame before it
C38_PulseKeepsLatch == [][
    (/\ s_pc = "emit" /\ s_pc' = "next" /\ Built
     /\ tick_log.prev_pulse # "none"
     /\ HandButtonHeld(yielded.buttons) = "none") => DecHand(frame') = DecHand(frame)]_vars

\* C38: the latch is sampled only inside build_frame: no step of a session
\* other than the frame step changes it, whatever the tick's snapshot holds; a
\* frame built outside safety-stop from a snapshot with neither square nor R1
\* held encodes the same latch value as the frame before it, whatever was held
\* on the ticks between the two
C38_LatchSampledInBuild == [][
    /\ s_pc # "emit" => _hand_forward' = _hand_forward
    /\ (/\ s_pc = "emit" /\ s_pc' = "next" /\ Built
        /\ ~_is_estop
        /\ HandButtonHeld(yielded.buttons) = "none") => DecHand(frame') = DecHand(frame)]_vars

\* square was held on a dropped tick and is released on the tick of the next
\* frame, which is built outside safety-stop and encodes latch value 0
C38_Witness == /\ s_pc = "next" /\ tick_log.frames = 1
               /\ tick_log.prev_pulse = "square"
               /\ HandButtonHeld(yielded.buttons) = "none"
               /\ ~_is_estop /\ DecHand(frame) = 0 /\ _hand_forward = 0




-----------------------------------------------------------------------------
(* Properties of the pure conversions *)

Abs(x) == IF x < 0 THEN -x ELSE x

\* the quotient n / d (d > 0) rounded to the nearest integer, ties to even, as
\* Python's round()
RoundDiv(n, d) == LET q == Abs(n) \div d
                      r == Abs(n) % d
                      m == IF 2 * r > d \/ (2 * r = d /\ q % 2 = 1) THEN q + 1 ELSE q
                  IN IF n < 0 THEN -m ELSE m

Clamp127(x) == IF x > 127 THEN 127 ELSE IF x < -127 THEN -127 ELSE x

\* the 8-bit two's-complement form of x in -128..127
TwosComplement(x) == IF x < 0 THEN 256 + x ELSE x

\* C13: for a declared range with min < max, _normalize_value returns an integer
\* in 0..255, 0 for raw = min and 255 for raw = max, and clamps raw values
\* outside the range (0 below min, 255 above max).
C13_NormalizeValueRange == p_fn = "_normalize_value" /\ p_arg.lo < p_arg.hi => /\ p_out \in 0..255
                                                                                /\ (p_arg.raw = p_arg.lo => p_out = 0)
                                                                                /\ (p_arg.raw = p_arg.hi => p_out = 255)
                                                                                /\ (p_arg.raw < p_arg.lo => p_out = 0)
                                                                                /\ (p_arg.raw > p_arg.hi => p_out = 255)

\* a raw value far above the maximum of the 16-bit range, clamped to 255
C13_Witness == p_fn = "_normalize_value" /\ p_arg.lo = -32768 /\ p_arg.hi = 32767 /\ p_arg.raw = 40000 /\ p_out = 255

\* C14: for a stick channel with rescaled value x, normalize outputs 128 when
\* |x - 128| < deadzone and x when |x - 128| >= deadzone; for L2 and R2 it outputs
\* x, also within deadzone of 128.
C14_DeadzoneSticksOnly == p_fn = "normalize" => LET x == IF p_arg.raw < 0 THEN 0 ELSE IF p_arg.raw > 255 THEN 255 ELSE p_arg.raw
                                                 IN p_out = (IF p_arg.ch \in {"L2", "R2"} THEN x ELSE IF Abs(x - 128) < 10 THEN 128 ELSE x)

\* a stick value exactly deadzone away from the centre, passed through
C14_Witness == p_fn = "normalize" /\ p_arg.ch = "right_y" /\ p_arg.raw = 118 /\ p_out = 118

\* C16 as stated: the velocity byte of a stick value v is the two's-complement
\* form of clamp(round(duty * 127), -127, 127), duty = (v - 128) / 128 (negated
\* on the two negated channels).
C16_VelocityByteRounded == p_fn = "velocity" => LET n == IF p_arg.ch = "right_x" THEN p_arg.raw - 128 ELSE 128 - p_arg.raw
                                                IN p_out = TwosComplement(Clamp127(RoundDiv(n * 127, 128)))

\* C16 amended: the velocity byte is the two's-complement form of
\* clamp(trunc(duty * 127), -127, 127): duty * 127 is truncated toward zero.
C16_VelocityByteTruncated == p_fn = "velocity" => LET n == IF p_arg.ch = "right_x" THEN p_arg.raw - 128 ELSE 128 - p_arg.raw
                                                      m == (Abs(n) * 127) \div 128
                                                  IN p_out = TwosComplement(Clamp127(IF n < 0 THEN -m ELSE m))

\* stick value 129 on the yaw channel: duty * 127 = 0.99 gives byte 0, not 1
C16_Witness == p_fn = "velocity" /\ p_arg.ch = "right_x" /\ p_arg.raw = 129 /\ p_out = 0

\* C17: _duty_to_signed_byte maps 1.0 to 0x7F, -1.0 to 0x81, 0.0 to 0x00, duties
\* above 1 to 0x7F and below -1 to 0x81, and truncates toward zero in between
\* (0.5 gives 0x3F, -0.5 gives 0xC1).  The duty is p_arg.raw / 128.
C17_DutyToSignedByte == p_fn = "_duty_to_signed_byte" => LET n == p_arg.raw
                                                          IN /\ (n = 128 => p_out = 127)
                                                             /\ (n = -128 => p_out = 129)
                                                             /\ (n = 0 => p_out = 0)
                                                             /\ (n > 128 => p_out = 127)
                                                             /\ (n < -128 => p_out = 129)
                                                             /\ (n = 64 => p_out = 63)
                                                             /\ (n = -64 => p_out = 193)
                                                             /\ (n \in 0..128 => p_out = (n * 127) \div 128)
                                                             /\ (n \in -128..-1 => p_out = (256 - ((-n) * 127) \div 128) % 256)

\* duty -0.5 converted to 0xC1
C17_Witness == p_fn = "_duty_to_signed_byte" /\ p_arg.raw = -64 /\ p_out = 193

\* C39: for every stick value 0..255 on left_x, left_y and right_x the velocity
\* byte, read as a signed 8-bit value, lies in -127..127 and is never 0x80; stick
\* value 0 gives magnitude 127 and stick value 255 gives magnitude 126
C39_VelocityByteRange == p_fn = "velocity" =>
    /\ p_out \in 0..255
    /\ p_out # 128
    /\ Signed(p_out) \in -127..127
    /\ p_arg.raw = 0 => Abs(Signed(p_out)) = 127
    /\ p_arg.raw = 255 => Abs(Signed(p_out)) = 126

\* stick value 0 on right_x gives byte 0x81, which is -127
C39_Witness == p_fn = "velocity" /\ p_arg.ch = "right_x" /\ p_arg.raw = 0 /\ p_out = 129

\* the byte-4 fields read back from a packed byte, as DecWheel .. DecAngle read
\* them from frame[4]
FiringFields(byte) == LET f == <<0, 0, 0, 0, byte, 0, 0>>
                      IN <<DecWheel(f), DecFire(f), DecTaimatu(f), DecHand(f), DecAngle(f)>>

\* C26: calc_crc8 gives the same value, in 0..255, for two 7-byte inputs that
\* agree on bytes 0..5 and differ in byte 6.
C26_CrcIgnoresByte6 == p_fn = "calc_crc8" /\ p_arg.data[7] # p_arg.data[8] => p_out[1] = p_out[2] /\ p_out[1] \in 0..255

\* two frames that differ in byte 6 only, with a non-zero CRC
C26_Witness == p_fn = "calc_crc8" /\ p_arg.data[7] = 0 /\ p_arg.data[8] = 254 /\ p_arg.data[1] = 134 /\ p_out[1] # 0

\* C27: for fields in range _build_firing returns wheel * 64 + fire * 16 +
\* lift * 4 + hand * 2 + angle, from which the five fields are read back, and
\* _build_header(False, 1, 1) is 0xA4; datatype and timestamp are read back
\* from a header byte, and its bit 7 is 0 exactly under safety-stop.
C27_PackingRoundTrip ==
    /\ p_fn = "_build_firing" => /\ p_out = p_arg.data[1] * 64 + p_arg.data[2] * 16 + p_arg.data[3] * 4 + p_arg.data[4] * 2 + p_arg.data[5]
                                 /\ FiringFields(p_out) = p_arg.data
                                 /\ p_arg.data = <<3, 3, 3, 1, 1>> => p_out = 255
                                 /\ p_arg.data = <<0, 0, 0, 0, 0>> => p_out = 0
    /\ p_fn = "_build_header" => /\ p_arg.data = <<FALSE, 1, 1>> => p_out = 164
                                 /\ DecDatatype(<<p_out>>) = p_arg.data[2]
                                 /\ DecTimestamp(<<p_out>>) = p_arg.data[3]
                                 /\ DecEstopBit(<<p_out>>) = 0 <=> p_arg.data[1]

\* a packed byte whose hand bit is set and whose angle bit is clear
C27_Witness == p_fn = "_build_firing" /\ p_arg.data = <<2, 1, 3, 1, 0>> /\ p_out = 158

\* the value of a lowercase hexadecimal digit, 16 for any other character
HexValue(c) == IF \E v \in 1..16 : HEX_DIGITS[v] = c THEN (CHOOSE v \in 1..16 : HEX_DIGITS[v] = c) - 1 ELSE 16

ExampleFrame == <<134, 63, 193, 127, 0, 0, 163>>

\* the text is, for each of the 7 bytes in order, two lowercase hexadecimal
\* digits, with a comma after each of the first 6
HexFields(text, f) ==
    /\ \A k \in 0..6 : /\ HexValue(text[3 * k + 1]) < 16 /\ HexValue(text[3 * k + 2]) < 16
                        /\ HexValue(text[3 * k + 1]) * 16 + HexValue(text[3 * k + 2]) = f[k + 1]
    /\ \A k \in 0..5 : text[3 * k + 3] = ","

ExampleWire == <<"8", "6", ",", "3", "f", ",", "c", "1", ",", "7", "f", ",", "0", "0", ",", "0", "0", ",", "a", "3", "\r", "\n">>

\* C28 as stated: _format_wire returns 23 characters: 7 two-digit lowercase
\* hexadecimal fields in byte order, 6 commas, and CR LF at the end.
C28_WireFormat23 == p_fn = "_format_wire" =>
    /\ Len(p_out) = 23
    /\ HexFields(p_out, p_arg.data)
    /\ p_out[Len(p_out) - 1] = "\r" /\ p_out[Len(p_out)] = "\n"

\* C28 amended: _format_wire returns 22 characters: for each of the 7 bytes, in
\* order, two lowercase hexadecimal digits, a comma after each of the first 6,
\* and CR LF at the end; 86 3F C1 7F 00 00 A3 gives "86,3f,c1,7f,00,00,a3" CR LF.
C28_WireFormat22 == p_fn = "_format_wire" =>
    /\ Len(p_out) = 22
    /\ HexFields(p_out, p_arg.data)
    /\ p_out[21] = "\r" /\ p_out[22] = "\n"
    /\ p_arg.data = ExampleFrame => p_out = ExampleWire

\* the example frame, formatted
C28_Witness == p_fn = "_format_wire" /\ p_arg.data = ExampleFrame /\ p_out[1] = "8" /\ p_out[20] = "3" /\ Len(p_out) = 22

====
